---- MODULE Spec2Model ----
(***************************************************************************)
(* A model of the VT-x/EPT hypervisor driver: the per-processor VMX       *)
(* lifecycle (enable / disable / sleep / wake), the cross-processor DPC    *)
(* dispatch it is built on, and the VM-exit dispatcher.                    *)
(*                                                                         *)
(* Spec      the lifecycle controller running on NCpu processors, every    *)
(*           cross-processor call going through dispatch_on_all_cores.     *)
(* SpecExit  one processor taking VM exits of every reason.                *)
(* SpecEpt   the enabled hypervisor: EPT hooks and watchpoints installed   *)
(*           and removed, guest accesses through cached translations,      *)
(*           sleep and wake, every call run to completion.                 *)
(***************************************************************************)
EXTENDS Integers, Sequences, FiniteSets, TLC

\* Number of logical processors (thread::get_processor_count()).
NCpu == 2

CPUs == 0..(NCpu - 1)

(***************************************************************************)
(* State of the lifecycle model.                                           *)
(***************************************************************************)
VARIABLES
    virt,                    \* [CPUs -> BOOLEAN] the processor runs as a VMX guest
    cr4_vmxe,                \* [CPUs -> BOOLEAN] CR4.VMXE of the processor
    rflags_ac,               \* [CPUs -> BOOLEAN] RFLAGS.AC the launch left behind
    efer_sce,                \* [CPUs -> BOOLEAN] IA32_EFER.SCE of the processor
    hypervisor_was_enabled_, \* global_driver::hypervisor_was_enabled_
    constructed,             \* "no", "yes", "failed" or "destroyed": the hypervisor object
    op,                      \* the driver call in progress on the calling thread
    round,                   \* the callback dispatch_on_all_cores is dispatching
    rollback,                \* the disable() round is the one enable() runs on failure
    cur,                     \* cpu_id of the dispatch_on_specific_cpu in progress
    pc,                      \* position of the calling thread
    failures,                \* the local 'failures' of enable()
    dpcq,                    \* [CPUs -> kind] DPC inserted and not dequeued (DpcData # NULL)
    running,                 \* [CPUs -> kind] deferred routine dequeued and executing
    released,                \* [CPUs -> BOOLEAN] the routine's KDPC and dispatch_data
                             \* went out of scope while it was executing
    ran,                     \* [CPUs -> Nat] invocations during the current dispatch_on_all_cores
    halted,                  \* "no", "bugcheck" (KeBugCheckEx) or "crash"
    lastRet,                 \* how the last driver call ended
    lastCore,                \* the callback that completed last, and whether its
                             \* processor was virtualised when it began
    sleepSeen,               \* a sleep notification has been delivered
    enabledBeforeSleep,      \* every processor was virtualised when the most recent
                             \* sleep notification arrived
    instance                 \* hypervisor::instance: "null" or the registered object

lifeVars == <<virt, cr4_vmxe, rflags_ac, efer_sce, hypervisor_was_enabled_, constructed,
              op, round,
              rollback, cur, pc, failures, dpcq, running, released, ran, halted,
              lastRet, lastCore, sleepSeen, enabledBeforeSleep, instance>>

(***************************************************************************)
(* State of the VM-exit model: one processor, its guest taking exits.      *)
(***************************************************************************)
VARIABLES
    x_virt,     \* the processor is in VMX operation, the guest running
    x_hooks,    \* syscall hooking is on (guest EFER.SCE clear, #UD intercepted)
    x_last,     \* the exit handled last: reason and guest state at the exit
    x_out,      \* what vm_exit_handler made of it
    x_down      \* the processor took a fault in VMX root operation

exitVars == <<x_virt, x_hooks, x_last, x_out, x_down>>

(***************************************************************************)
(* State of the EPT model: one 2 MiB region of guest-physical memory, its  *)
(* EPT entries, the hook registry and what each processor has cached.      *)
(***************************************************************************)
VARIABLES
    pd_split,               \* the PD entry of the region points to a page table
    pt,                     \* [Pages -> view] the PT entries (meaningful once split)
    ept_hooks,              \* [Pages -> 0 or owner pid] registered hooks
    ept_code_watch_points,  \* [Pages -> 0 or owner pid] registered watchpoints
    tlb,                    \* [CPUs -> cached translation]
    obs,                    \* the last read or fetch the guest completed on a hooked page
    e_halted                \* a processor faulted outside the guest's control

eptVars == <<pd_split, pt, ept_hooks, ept_code_watch_points, tlb, obs, e_halted>>

\* The hook lookup table (vmx::simple_ept_lookup) with one thread that changes
\* it under the hook lock and one violation handler that searches it.
VARIABLES
    hooks_,        \* simple_ept_lookup::hooks_: slot -> hook object, 0 is nullptr
    hook_count_,   \* simple_ept_lookup::hook_count_
    registered,    \* hooks whose registration has completed and whose removal has not begun
    m_pc,          \* position of the thread holding the hook lock
    m_hook,        \* the hook it adds or removes
    m_j,           \* remove_hook: index j of the shifting loop; add_hook: the slot written
    m_last,        \* what the last registration request returned
    f_pc,          \* position of the lookup in find_hook
    f_i,           \* find_hook: index i
    f_page,        \* find_hook: the aligned address looked up
    f_res,         \* find_hook: the pointer returned, 0 is nullptr, -1 a host fault
    f_stable,      \* hooks of f_page registered ever since the lookup began
    f_ever         \* hooks of f_page registered, or being added or removed, at
                   \* some moment of the lookup

regVars == <<hooks_, hook_count_, registered, m_pc, m_hook, m_j, m_last,
             f_pc, f_i, f_page, f_res, f_stable, f_ever>>

\* The per-processor vmx::state objects and what each processor does to them.
VARIABLES
    s_pc,          \* processor -> how far it is: "off", "captured", "root", "ready",
                   \* "guest" or "host"
    s_cur,         \* processor -> what get_current_vm_state() returned in enable_core
    s_vmcs,        \* processor -> address of its current VMCS region, 0 if none
    s_host_rsp,    \* VMCS address -> the HOST_RSP field written into that VMCS
    s_guest_rsp,   \* VMCS address -> the GUEST_RSP field written into that VMCS
    s_resolved,    \* processor -> the state its last launch or exit handler resolved
    s_reason,      \* processor -> reason of the exit it is handling
    s_writes,      \* processor -> the states it has written, by index (-1: no state)
    s_launched,    \* state index -> launch_context.launched of that state
    s_steps,       \* processor -> the VMX instructions of its last enable_core, in order
    s_ret,         \* processor -> what its last try_enable_core returned, "none" before
    s_error,       \* processor -> the exception try_enable_core caught and logged
    s_vm_error     \* processor -> the VM-instruction error field after a failed VMLAUNCH

stateVars == <<s_pc, s_cur, s_vmcs, s_host_rsp, s_guest_rsp, s_resolved, s_reason, s_writes,
               s_launched, s_steps, s_ret, s_error, s_vm_error>>

\* A VM-execution control computed from its capability MSR.
VARIABLES
    a_pc,          \* "idle", "read" (capability MSR captured), "written" (control written)
    a_control,     \* the capability MSR read into msr_data, as the set of its bits
    a_desired,     \* the desired value of the control, as the set of its bits
    a_result       \* what adjust_msr returned for them

msrVars == <<a_pc, a_control, a_desired, a_result>>

\* One hypervisor object being constructed and destroyed, and its memory.
VARIABLES
    h_pc,          \* where the constructor or destructor stands, "idle" outside them
    h_instance,    \* the static hypervisor::instance as this object's caller sees it
    h_ept,         \* ept_ is not nullptr
    h_array,       \* vm_states_ is not nullptr
    h_states,      \* index -> vm_states_[i] is not nullptr
    h_i,           \* the loop index of allocate_vm_states
    h_allocs,      \* object -> how often the running call sequence allocated it
    h_frees,       \* object -> how often it was freed
    h_steps,       \* what the destructor has done, in order
    h_ret          \* what the caller got from its last constructor or destructor

ctorVars == <<h_pc, h_instance, h_ept, h_array, h_states, h_i, h_allocs, h_frees,
              h_steps, h_ret>>

\* A simple_ept_lookup used by one caller at a time.
VARIABLES
    l_hooks,             \* hooks_: slot -> hook object, 0 for nullptr
    l_hook_count,        \* hook_count_
    l_watchpoints,       \* watchpoints_: slot -> watch point object, 0 for nullptr
    l_watchpoint_count,  \* watchpoint_count_
    l_registered,        \* kind -> the objects added and not removed or cleared since
    l_last               \* the last call: what was asked and what it returned

lookupVars == <<l_hooks, l_hook_count, l_watchpoints, l_watchpoint_count, l_registered,
                l_last>>

\* One call of install_ept_code_watch_points, statement by statement.
VARIABLES
    w_pc,        \* "idle", "loop", "invalidate" or "done"
    w_pages,     \* physical_pages, count = Len(w_pages)
    w_i,         \* the loop index, counted from 0
    w_success,   \* the local variable success
    w_ept,       \* the page directory, page table and watch point list of the ept object
    w_log,       \* what the call has done so far, in order
    w_ret        \* what the call returned, "none" while it runs

watchVars == <<w_pc, w_pages, w_i, w_success, w_ept, w_log, w_ret>>

\* The user-mode client library: the static objects of get_driver_device and
\* the calls of hyperhook_initialize and hyperhook_write.
VARIABLES
    u_driver,    \* the static driver object holds a loaded driver service
    u_device,    \* the static driver_device holds an open handle
    u_patched,   \* the requests the driver has carried out, as <<pid, address>>
    u_last       \* the last call: what was asked, what happened, what it returned

clientVars == <<u_driver, u_device, u_patched, u_last>>

\* sequential_callback_dispatcher running as a DPC on every processor.
VARIABLES
    q_pc,        \* processor -> "idle", "test", "callback", "barrier", "spin", "signal", "done"
    q_i,         \* processor -> its loop index i
    q_count,     \* KeSignalCallDpcSynchronize: the processors arrived in the open round
    q_released,  \* KeSignalCallDpcSynchronize: the rounds completed so far
    q_order,     \* the processors on which the callback was started, in order
    q_ended      \* processor -> how its callback ended: "none", "returned" or "caught"

seqVars == <<q_pc, q_i, q_count, q_released, q_order, q_ended>>

\* One processor executing guest instructions that lie on hooked pages.
VARIABLES
    i_pc,        \* "idle", "fetch" (about to fetch), "data" (fetched, about to access
                 \* its operand) or "retired"
    i_insn,      \* the instruction: its page, its data access and the operand's page
    i_view,      \* hooked page -> the entry installed for it: "rw" or "exec"
    i_exits,     \* EPT violations taken for the instruction so far (counted to MaxExits)
    i_retired    \* instructions retired so far

fetchVars == <<i_pc, i_insn, i_view, i_exits, i_retired>>

auxVars ==
    <<regVars, stateVars, msrVars, ctorVars, lookupVars, watchVars, clientVars, seqVars,
      fetchVars>>

vars == <<lifeVars, exitVars, eptVars, auxVars>>

(***************************************************************************)
(* Program constants.                                                      *)
(***************************************************************************)
\* 0x41414141: EAX of both reserved CPUID cookies.
CookieEax == 1094795585
\* 0x42424242: ECX of the cookie that asks the hypervisor to leave VMX operation.
CookieExitEcx == 1111638594
\* 0x42424243: ECX of the cookie that switches syscall hooking on.
CookieHookEcx == 1111638595
\* 'momo' (0x6D6F6D6F): the vendor signature returned in EAX.
VendorSignature == 1836019055
\* CPUID_VERSION_INFORMATION
CPUID_VERSION_INFORMATION == 1
\* Low two bits of a segment selector: the requested privilege level.
SEGMENT_ACCESS_RIGHTS_DESCRIPTOR_PRIVILEGE_LEVEL_MASK == 3
DPL_SYSTEM == 0
\* Guest CS selectors of the OS: kernel code (0x10, ring 0) and user code
\* (0x33, ring 3).
GuestCsSelectors == {16, 51}

(***************************************************************************)
(* Register values.  A 32-bit word is its bit 31 and its low 31 bits; a    *)
(* 64-bit register is its upper and lower 32-bit words.                    *)
(***************************************************************************)
W32(b, l) == [b31 |-> b, low |-> l]

Q64(h, l) == [hi |-> h, lo |-> l]

Zero32 == W32(FALSE, 0)

Ones32 == W32(TRUE, 2147483647)

\* A small non-negative number as a 32-bit word and as a 64-bit register.
Word(n) == W32(FALSE, n)

Reg(n) == Q64(Zero32, Word(n))

\* uint64_t <- uint32_t and uint64_t <- int32_t.
ZeroExtend(w) == Q64(Zero32, w)

SignExtend(w) == Q64(IF w.b31 THEN Ones32 ELSE Zero32, w)

\* uint64_t + n for a small n, modulo 2^64: the low 31 bits, then bit 31,
\* then the carry into the upper word.
Carry31(low, n) == low > 2147483647 - n

Sum31(low, n) == IF Carry31(low, n) THEN ((low - 2147483647) - 1) + n ELSE low + n

AddWord(w, n) ==
    [sum |-> W32(w.b31 # Carry31(w.low, n), Sum31(w.low, n)),
     carry |-> IF w.b31 /\ Carry31(w.low, n) THEN 1 ELSE 0]

AddSmall(q, n) == Q64(AddWord(q.hi, AddWord(q.lo, n).carry).sum, AddWord(q.lo, n).sum)

\* A flags value (RFLAGS, R11, IA32_FMASK) is the set of its bits that are
\* set, so that &, | and ~ are the set operations.  BitsOf(n) is the value n.
BitsOf(n) == {i \in 0..30 : (n \div (2 ^ i)) % 2 = 1}

\* static_cast<uint32_t> of a flags value.
Truncate32(bits) == {i \in bits : i < 32}

\* static_cast<uint16_t> of a selector computation.
Truncate16(n) == n % 65536

\* 0x80000000: CPUID.1:ECX[31], "hypervisor present".
HYPERV_HYPERVISOR_PRESENT_BIT == W32(TRUE, 0)
\* 0x40000001: the vendor interface leaf.
HYPERV_CPUID_INTERFACE == 1073741825

\* w & HYPERV_HYPERVISOR_PRESENT_BIT # 0, and w | HYPERV_HYPERVISOR_PRESENT_BIT.
HasBit31(w) == w.b31 /\ HYPERV_HYPERVISOR_PRESENT_BIT.b31

OrBit31(w) == W32(w.b31 \/ HYPERV_HYPERVISOR_PRESENT_BIT.b31, w.low)

(***************************************************************************)
(* CPUID as the bare processor answers it (__cpuidex): leaf 1 reports VMX  *)
(* (ECX[5]) and no hypervisor; the leaves of the 0x4000_0000 range and the *)
(* cookie leaf are not implemented and return the data of the highest      *)
(* basic leaf.  leaf and subleaf are 32-bit words, the result is int32[4]. *)
(***************************************************************************)
NativeCpuid(leaf, subleaf) ==
    IF leaf = Word(CPUID_VERSION_INFORMATION)
    THEN [eax |-> Word(526057), ebx |-> Word(2048), ecx |-> Word(32), edx |-> Word(7)]
    ELSE IF leaf = Word(0)
    THEN [eax |-> Word(22), ebx |-> Word(1970169159), ecx |-> Word(1818588270),
          edx |-> Word(1231384169)]
    ELSE [eax |-> Word(0), ebx |-> Word(subleaf.low % 4), ecx |-> Word(1),
          edx |-> W32(TRUE, 7)]

\* is_system(): the guest's CS selector has RPL 0.
is_system(cs) ==
    (cs % (SEGMENT_ACCESS_RIGHTS_DESCRIPTOR_PRIVILEGE_LEVEL_MASK + 1)) = DPL_SYSTEM

\* vmx_handle_cpuid without the is_system() test on the two cookies.
vmx_handle_cpuid_any_cpl(rax, rcx, cs) ==
    IF rax = Reg(CookieEax) /\ rcx = Reg(CookieHookEcx)
    THEN [hooks |-> TRUE, exit_vm |-> FALSE, written |-> FALSE,
          rax |-> rax, rbx |-> Reg(0), rcx |-> rcx, rdx |-> Reg(0)]
    ELSE IF rax = Reg(CookieEax) /\ rcx = Reg(CookieExitEcx)
    THEN [hooks |-> FALSE, exit_vm |-> TRUE, written |-> FALSE,
          rax |-> rax, rbx |-> Reg(0), rcx |-> rcx, rdx |-> Reg(0)]
    ELSE LET n == NativeCpuid(rax.lo, rcx.lo)
             eax == IF rax # Reg(1) /\ rax = Reg(HYPERV_CPUID_INTERFACE)
                    THEN Word(VendorSignature) ELSE n.eax
             ecx == IF rax = Reg(1) THEN OrBit31(n.ecx) ELSE n.ecx
         IN  [hooks |-> FALSE, exit_vm |-> FALSE, written |-> TRUE,
              rax |-> SignExtend(eax), rbx |-> SignExtend(n.ebx),
              rcx |-> SignExtend(ecx), rdx |-> SignExtend(n.edx)]

(***************************************************************************)
(* vmx_handle_cpuid: what the handler decides for a CPUID exit with the    *)
(* guest's RAX, RCX (64-bit) and CS selector.  hooks:                      *)
(* vmx_enable_syscall_hooks(true) was run; exit_vm: guest_context.exit_vm  *)
(* was set; written: the four result registers were stored into the        *)
(* guest's register frame, each converted from INT32 to the 64-bit         *)
(* register.                                                               *)
(***************************************************************************)
vmx_handle_cpuid(rax, rcx, cs) ==
    IF rax = Reg(CookieEax) /\ rcx = Reg(CookieHookEcx) /\ is_system(cs)
    THEN [hooks |-> TRUE, exit_vm |-> FALSE, written |-> FALSE,
          rax |-> rax, rbx |-> Reg(0), rcx |-> rcx, rdx |-> Reg(0)]
    ELSE IF rax = Reg(CookieEax) /\ rcx = Reg(CookieExitEcx) /\ is_system(cs)
    THEN [hooks |-> FALSE, exit_vm |-> TRUE, written |-> FALSE,
          rax |-> rax, rbx |-> Reg(0), rcx |-> rcx, rdx |-> Reg(0)]
    ELSE LET n == NativeCpuid(rax.lo, rcx.lo)
             eax == IF rax # Reg(1) /\ rax = Reg(HYPERV_CPUID_INTERFACE)
                    THEN Word(VendorSignature) ELSE n.eax
             ecx == IF rax = Reg(1) THEN OrBit31(n.ecx) ELSE n.ecx
         IN  [hooks |-> FALSE, exit_vm |-> FALSE, written |-> TRUE,
              rax |-> SignExtend(eax), rbx |-> SignExtend(n.ebx),
              rcx |-> SignExtend(ecx), rdx |-> SignExtend(n.edx)]

\* __cpuidex(cpu_info, leaf, subleaf) as software on a processor sees it:
\* through the handler when the processor is virtualised, from the bare
\* processor otherwise.  The intrinsic stores the low 32 bits of each register.
CpuidSeen(isVirt, leaf, subleaf, cs) ==
    IF isVirt
    THEN LET h == vmx_handle_cpuid(ZeroExtend(leaf), ZeroExtend(subleaf), cs)
         IN  [eax |-> h.rax.lo, ebx |-> h.rbx.lo, ecx |-> h.rcx.lo, edx |-> h.rdx.lo]
    ELSE NativeCpuid(leaf, subleaf)

\* The CS selector of driver code (DPCs and passive-level calls run in ring 0).
KernelCs == CHOOSE s \in GuestCsSelectors : is_system(s)

\* is_hypervisor_present(), run in ring 0 on a processor.
is_hypervisor_present(isVirt) ==
    /\ HasBit31(CpuidSeen(isVirt, Word(CPUID_VERSION_INFORMATION), Zero32, KernelCs).ecx)
    /\ CpuidSeen(isVirt, Word(HYPERV_CPUID_INTERFACE), Zero32, KernelCs).eax
          = Word(VendorSignature)

(***************************************************************************)
(* The VM-exit path of one processor.                                      *)
(***************************************************************************)
\* Exit reasons vmx_dispatch_vm_exit routes to vmx_handle_vmx.
VmxInstructionReasons ==
    {"VMCALL", "VMCLEAR", "VMLAUNCH", "VMPTRLD", "VMPTRST", "VMREAD", "VMRESUME",
     "VMWRITE", "VMXOFF", "VMXON"}

\* Exit reasons the switch has no case for.
UnhandledReasons == {"INVEPT", "INVVPID", "RDMSR", "WRMSR", "GETSEC"}

\* XSETBV as the processor executes it in VMX root operation: #GP(0) unless
\* ECX selects XCR0 and bit 0 (x87 state) of EDX:EAX is set.
XsetbvFaults(ecx, edx, eax) == ecx # Zero32 \/ eax.low % 2 = 0

\* vmx_handle_xsetbv: _xsetbv with the guest's ECX and EDX:EAX, unchecked.
vmx_handle_xsetbv(rax, rcx, rdx) == XsetbvFaults(rcx.lo, rdx.lo, rax.lo)

\* Interruption type 3 of a VM-entry event.
hardware_exception == 3

\* The VM-entry exception error-code field before anything is written to it.
ErrorCodeUnwritten == -1

\* vmentry_interrupt_information: vector in bits 0-7, interruption type in
\* bits 8-10, deliver-error-code in bit 11, valid in bit 31.
vmentry_interrupt_information(type, vector, deliver_code) ==
    W32(TRUE, vector + 256 * type + 2048 * (IF deliver_code THEN 1 ELSE 0))

\* The event the next VM entry delivers for the contents of the VM-entry
\* interruption-information field and exception error-code field.
PendingEvent(info, code) ==
    [valid |-> info.b31, vector |-> info.low % 256, type |-> (info.low \div 256) % 8,
     deliver |-> ((info.low \div 2048) % 2 = 1), error_code |-> code]

\* inject_interuption: the VM-entry interruption-information field it leaves,
\* as the event a VM entry delivers.
\* With deliver_code the error code is written to the same field again and
\* replaces the event that was just stored there.
inject_interuption(type, vector, deliver_code, error_code) ==
    IF deliver_code
    THEN PendingEvent(Word(error_code), ErrorCodeUnwritten)
    ELSE PendingEvent(vmentry_interrupt_information(type, vector, deliver_code),
                      ErrorCodeUnwritten)

NoEvent == PendingEvent(Zero32, ErrorCodeUnwritten)

\* Exception vectors.
invalid_opcode == 6
page_fault == 14

\* inject_invalid_opcode() asking for an error code to be delivered.
inject_invalid_opcode_with_error_code ==
    inject_interuption(hardware_exception, invalid_opcode, TRUE, 0)

\* inject_invalid_opcode() and inject_page_fault(address), whose error code
\* is 0.
inject_invalid_opcode == inject_interuption(hardware_exception, invalid_opcode, FALSE, 0)

inject_page_fault == inject_interuption(hardware_exception, page_fault, TRUE, 0)

\* What reading the instruction bytes at the guest's RIP can meet.
ByteReads == {"syscall_bytes", "sysret_bytes", "other_bytes", "unmapped", "read_failed"}

\* read_data_or_page_fault: an address without physical mapping injects a
\* page fault and fails; a failed read of the physical memory just fails.
read_data_or_page_fault(read) ==
    IF read = "unmapped" THEN [ok |-> FALSE, event |-> inject_page_fault]
    ELSE IF read = "read_failed" THEN [ok |-> FALSE, event |-> NoEvent]
    ELSE [ok |-> TRUE, event |-> NoEvent]

\* get_syscall_state: the syscall_state returned and the event left pending.
get_syscall_state(read) ==
    [state |-> IF ~read_data_or_page_fault(read).ok THEN "page_fault"
               ELSE IF read = "syscall_bytes" THEN "is_syscall"
               ELSE IF read = "sysret_bytes" THEN "is_sysret"
               ELSE "none",
     event |-> read_data_or_page_fault(read).event]

\* RFLAGS.RF (bit 16), and the flags SYSRET loads from R11 (0x3C7FD7).
RFLAGS_RESUME_FLAG_FLAG == 65536

SysretRflagsMask == 3964887

\* n & ~3 and n | 3 on a selector.
ClearRpl(n) == n - (n % 4)

SetRpl3(n) == ClearRpl(n) + 3

\* The SYSCALL branch of vmx_handle_exception: RCX, RIP, R11, RFLAGS and the
\* CS/SS selectors it writes.  msr.star_syscall is IA32_STAR[47:32], of which
\* static_cast<uint16_t>((star >> 32) & ~3) keeps all but the low two bits.
emulate_syscall(in) ==
    [rcx |-> AddSmall(in.rip, in.len),
     guest_rip |-> in.msr.lstar,
     r11 |-> in.rflags,
     guest_e_flags |-> in.rflags \ (in.msr.fmask \cup BitsOf(RFLAGS_RESUME_FLAG_FLAG)),
     cs_sel |-> Truncate16(ClearRpl(in.msr.star_syscall)),
     ss_sel |-> Truncate16(ClearRpl(in.msr.star_syscall) + 8)]

\* The SYSRET branch: RIP from RCX, RFLAGS from R11, CS/SS from
\* msr.star_sysret, which is IA32_STAR[63:48].
emulate_sysret(in) ==
    [rcx |-> in.rcx,
     guest_rip |-> in.rcx,
     r11 |-> in.r11,
     guest_e_flags |-> (in.r11 \cap BitsOf(SysretRflagsMask)) \cup BitsOf(2),
     cs_sel |-> SetRpl3(Truncate16(in.msr.star_sysret + 16)),
     ss_sel |-> SetRpl3(Truncate16(in.msr.star_sysret + 8))]

(***************************************************************************)
(* vmx_handle_exception for the exit in: in.kind is the interruption type  *)
(* and vector, in.sys what the read of the bytes at the guest's RIP meets. *)
(* The fields it does not give are left as guest_context holds them.       *)
(***************************************************************************)
vmx_handle_exception(in) ==
    IF in.kind = "nmi"
    THEN [increment_rip |-> TRUE, event |-> NoEvent, emulated |-> "none",
          sys_state |-> "none"]
    ELSE IF in.kind = "invalid_opcode"
    THEN IF get_syscall_state(in.sys).state = "page_fault"
         THEN [increment_rip |-> FALSE, event |-> get_syscall_state(in.sys).event,
               emulated |-> "none", sys_state |-> "page_fault"]
         ELSE IF get_syscall_state(in.sys).state = "is_syscall"
         THEN [increment_rip |-> FALSE, event |-> NoEvent, emulated |-> "is_syscall",
               sys_state |-> "is_syscall"] @@ emulate_syscall(in)
         ELSE IF get_syscall_state(in.sys).state = "is_sysret"
         THEN [increment_rip |-> FALSE, event |-> NoEvent, emulated |-> "is_sysret",
               sys_state |-> "is_sysret"] @@ emulate_sysret(in)
         ELSE [increment_rip |-> FALSE, event |-> inject_invalid_opcode,
               emulated |-> "none", sys_state |-> "none"]
    ELSE [increment_rip |-> TRUE,
          event |-> PendingEvent(vmentry_interrupt_information(6, 3, FALSE),
                                 ErrorCodeUnwritten),
          emulated |-> "none", sys_state |-> "none"]

\* vmx_handle_vmx: CF is set in the guest RFLAGS.
vmx_handle_vmx(in) == [cf |-> TRUE, guest_e_flags |-> in.rflags \cup BitsOf(1)]

\* ept::handle_violation: the view of a hooked page is switched or the
\* watchpoint is recorded and the instruction is retried; a violation no hook
\* or watchpoint accounts for ends the guest.
handle_violation(found) == [increment_rip |-> FALSE, exit_vm |-> (found = "no_entry")]

\* ept::handle_misconfiguration: fatal, the guest is left.
handle_misconfiguration == [increment_rip |-> FALSE, exit_vm |-> TRUE]

\* guest_context as vm_exit_handler sets it up before the dispatch, with the
\* guest's register frame.
guest_context(in) ==
    [exit_vm |-> FALSE, increment_rip |-> TRUE, hooks |-> FALSE, written |-> FALSE,
     fault |-> FALSE, cf |-> FALSE, event |-> NoEvent, emulated |-> "none",
     sys_state |-> "none",
     rax |-> in.rax, rbx |-> Reg(0), rcx |-> in.rcx, rdx |-> in.rdx, r11 |-> in.r11,
     guest_rip |-> in.rip, guest_rsp |-> in.rsp, guest_e_flags |-> in.rflags,
     cs_sel |-> in.cs, ss_sel |-> in.ss]

(***************************************************************************)
(* vmx_dispatch_vm_exit.  in: exit reason, the guest's RAX/RCX/RDX, CS      *)
(* selector and instruction length, and for the delegated handlers what    *)
(* they find.  Result: exit_vm, increment_rip, the guest registers stored  *)
(* back, CF set in the guest RFLAGS, the event queued for VM entry,        *)
(* syscall hooking switched on, and whether the handler faulted in VMX     *)
(* root operation.                                                         *)
(***************************************************************************)
vmx_dispatch_vm_exit(in) ==
    IF in.reason = "CPUID"
    THEN LET h == vmx_handle_cpuid(in.rax, in.rcx, in.cs)
         IN  IF h.written THEN h @@ guest_context(in)
             ELSE [exit_vm |-> h.exit_vm, hooks |-> h.hooks] @@ guest_context(in)
    ELSE IF in.reason = "XSETBV"
    THEN [fault |-> vmx_handle_xsetbv(in.rax, in.rcx, in.rdx)] @@ guest_context(in)
    ELSE IF in.reason \in VmxInstructionReasons
    THEN vmx_handle_vmx(in) @@ guest_context(in)
    ELSE IF in.reason = "EPT_VIOLATION"
    THEN handle_violation(in.ept) @@ guest_context(in)
    ELSE IF in.reason = "EPT_MISCONFIGURATION"
    THEN handle_misconfiguration @@ guest_context(in)
    ELSE IF in.reason = "EXCEPTION_OR_NMI"
    THEN vmx_handle_exception(in) @@ guest_context(in)
    ELSE guest_context(in)

\* The GDTR and IDTR capture_cpu_context stored in the launch context of
\* this processor's state.
launch_context == [gdtr |-> "captured_gdtr", idtr |-> "captured_idtr"]

\* restore_descriptor_tables(launch_context).
restore_descriptor_tables(lc) ==
    <<[op |-> "lgdt", with |-> lc.gdtr], [op |-> "lidt", with |-> lc.idtr]>>

\* The end of vm_exit_handler with the VMXOFF placed before the descriptor
\* tables and CR3 are restored.
LeaveOrResume_vmxoff_first(d, cr3) ==
    IF d.exit_vm
    THEN <<[op |-> "vmxoff", with |-> "none"]>> \o restore_descriptor_tables(launch_context)
         \o <<[op |-> "writecr3", with |-> cr3],
              [op |-> "restore_context", with |-> "guest_rip"]>>
    ELSE <<[op |-> "restore_context", with |-> "resume_vmx"]>>

\* The end of vm_exit_handler: the privileged instructions it executes, in
\* order, and where restore_context continues.
LeaveOrResume(d, cr3) ==
    IF d.exit_vm
    THEN restore_descriptor_tables(launch_context)
         \o <<[op |-> "writecr3", with |-> cr3], [op |-> "vmxoff", with |-> "none"],
              [op |-> "restore_context", with |-> "guest_rip"]>>
    ELSE <<[op |-> "restore_context", with |-> "resume_vmx"]>>

\* The register frame restore_context loads when exit_vm is set.
ExitContext(d) ==
    [Rcx |-> Reg(1128481603), Rsp |-> d.guest_rsp, Rip |-> d.guest_rip,
     EFlags |-> Truncate32(d.guest_e_flags)]

NoContext == [Rcx |-> Reg(0), Rsp |-> Reg(0), Rip |-> Reg(0), EFlags |-> {}]

\* The last lines of vmx_dispatch_vm_exit: the guest RIP advanced by the
\* VM-exit instruction length when increment_rip is set.
AdvanceRip(d, len) ==
    [guest_rip |-> IF d.increment_rip THEN AddSmall(d.guest_rip, len) ELSE d.guest_rip,
     rip_add |-> IF d.increment_rip THEN len ELSE 0] @@ d

(***************************************************************************)
(* vm_exit_handler: dispatch, the guest RIP advanced by the instruction    *)
(* length when increment_rip is set, then VMXOFF and return to the         *)
(* captured context when exit_vm is set (RCX = 0x43434343), VMRESUME       *)
(* otherwise.  A fault raised by the handler in VMX root operation reaches *)
(* neither.                                                                *)
(***************************************************************************)
ExitPath(d, len, cr3) ==
    IF d.fault
    THEN [outcome |-> "host_fault", rip_add |-> 0, steps |-> <<>>,
          context |-> NoContext] @@ d
    ELSE [outcome |-> IF d.exit_vm THEN "vmxoff" ELSE "vmresume",
          rcx |-> IF d.exit_vm THEN ExitContext(AdvanceRip(d, len)).Rcx ELSE d.rcx,
          steps |-> LeaveOrResume(d, cr3),
          context |-> IF d.exit_vm THEN ExitContext(AdvanceRip(d, len)) ELSE NoContext]
         @@ AdvanceRip(d, len)

vm_exit_handler(in) == ExitPath(vmx_dispatch_vm_exit(in), in.len, in.cr3)

(***************************************************************************)
(* VM exits of one processor.                                              *)
(***************************************************************************)
\* Guest register values at an exit.
RaxInputs ==
    {Reg(CookieEax), Reg(CPUID_VERSION_INFORMATION), Reg(HYPERV_CPUID_INTERFACE), Reg(0),
     Q64(Word(1), Word(CPUID_VERSION_INFORMATION)), Q64(Word(1), Word(CookieEax))}

RcxInputs == {Reg(CookieExitEcx), Reg(CookieHookEcx), Reg(0), Reg(1)}

\* Guest RIP at an exit: a user-mode address and a kernel address two bytes
\* below a 4 GiB boundary (0xFFFFF800_FFFFFFFE).
RipInputs == {Reg(4096), Q64(W32(TRUE, 2147481600), W32(TRUE, 2147483646))}

\* Guest RFLAGS at an exit: 0x246, and 0x10346 with TF and RF set.
RflagsInputs == {BitsOf(582), BitsOf(66374)}

\* IA32_STAR[47:32], IA32_STAR[63:48], IA32_LSTAR and IA32_FMASK as the OS
\* programs them (0x10, 0x23, the system call entry, 0x4700), and a second
\* setting with other selectors and an empty mask.
MsrInputs ==
    {[star_syscall |-> 16, star_sysret |-> 35,
      lstar |-> Q64(W32(TRUE, 2147481600), Word(8192)), fmask |-> BitsOf(18176)],
     [star_syscall |-> 11, star_sysret |-> 65528,
      lstar |-> Q64(W32(TRUE, 2147481600), Word(12288)), fmask |-> {}]}

\* VM-exit instruction lengths (CPUID is 2 bytes, XSETBV and the VMX
\* instructions 3 or more).
InstructionLengths == {2, 3}

\* The VM-exit instruction length field after an exit that is not caused by
\* the execution of an instruction (a hardware exception, an NMI, an EPT
\* violation of a data access): the processor leaves the field undefined.
UndefinedLengths == {0, 2, 3}

NoExit ==
    [reason |-> "none", rax |-> Reg(0), rcx |-> Reg(0), rdx |-> Reg(0), cs |-> KernelCs,
     len |-> 0, kind |-> "none", sys |-> "none", ept |-> "none",
     rip |-> Reg(4096), rsp |-> Reg(65536), rflags |-> BitsOf(582), r11 |-> {},
     ss |-> 24, cr3 |-> "guest_cr3",
     msr |-> CHOOSE m \in MsrInputs : m.star_syscall = 16]

\* Before the first exit and after a launch nothing has been handled: the
\* record of the last exit and of its outcome carry no register values.
NoneTaken == [reason |-> "none", kind |-> "none", sys |-> "none", ept |-> "none", len |-> 0]

NoOutcome ==
    [exit_vm |-> FALSE, increment_rip |-> FALSE, hooks |-> FALSE, written |-> FALSE,
     fault |-> FALSE, cf |-> FALSE, emulated |-> "none", sys_state |-> "none",
     cs_sel |-> 0, ss_sel |-> 0, steps |-> <<>>, rip_add |-> 0, outcome |-> "none"]

InitExit ==
    /\ x_virt = TRUE
    /\ x_hooks = FALSE
    /\ x_last = NoneTaken
    /\ x_out = NoOutcome
    /\ x_down = FALSE

\* The guest runs: exits can be taken.
GuestRuns == x_virt /\ ~x_down

\* The entry stub vm_exit -> vm_exit_handler for the exit described by in.
TakeExit(in) ==
    /\ x_last' = in
    /\ x_out' = vm_exit_handler(in)
    /\ x_hooks' = (x_hooks \/ (x_out'.hooks /\ ~x_out'.fault))
    /\ x_virt' = (x_out'.outcome = "vmresume")
    /\ x_down' = (x_out'.outcome = "host_fault")
    /\ UNCHANGED <<lifeVars, eptVars, auxVars>>

ExitCpuid ==
    /\ GuestRuns
    /\ \E rax \in RaxInputs, rcx \in RcxInputs, cs \in GuestCsSelectors, rip \in RipInputs,
          rflags \in RflagsInputs :
        TakeExit([NoExit EXCEPT !.reason = "CPUID", !.rax = rax, !.rcx = rcx, !.cs = cs,
                                !.len = 2, !.rip = rip, !.rflags = rflags])

ExitInvd ==
    /\ GuestRuns
    /\ TakeExit([NoExit EXCEPT !.reason = "INVD", !.len = 2])

\* XSETBV exits only from CPL 0; at other levels the guest takes #GP itself.
ExitXsetbv ==
    /\ GuestRuns
    /\ \E rax \in RaxInputs, rcx \in RcxInputs :
        TakeExit([NoExit EXCEPT !.reason = "XSETBV", !.rax = rax, !.rcx = rcx, !.len = 3])

ExitVmxInstruction ==
    /\ GuestRuns
    /\ \E reason \in VmxInstructionReasons, len \in InstructionLengths, rip \in RipInputs,
          rflags \in RflagsInputs :
        TakeExit([NoExit EXCEPT !.reason = reason, !.len = len, !.rip = rip,
                                !.rflags = rflags])

ExitEptViolation ==
    /\ GuestRuns
    /\ \E found \in {"hook", "watchpoint", "no_entry"}, cs \in GuestCsSelectors,
          len \in UndefinedLengths, rip \in RipInputs :
        TakeExit([NoExit EXCEPT !.reason = "EPT_VIOLATION", !.ept = found, !.cs = cs,
                                !.len = len, !.rip = rip])

ExitEptMisconfiguration ==
    /\ GuestRuns
    /\ TakeExit([NoExit EXCEPT !.reason = "EPT_MISCONFIGURATION"])

\* #UD is intercepted once syscall hooking is on.  The guest's RCX and R11
\* at a SYSRET are what a SYSCALL left there, or other values.
ExitException ==
    /\ GuestRuns
    /\ \E kind \in {"nmi", "invalid_opcode", "other"},
          sys \in ByteReads \cup {"none"},
          cs \in GuestCsSelectors, len \in UndefinedLengths, rip \in RipInputs,
          rflags \in RflagsInputs, r11 \in RflagsInputs, msr \in MsrInputs,
          rcx \in {AddSmall(r, 2) : r \in RipInputs} :
        /\ kind = "invalid_opcode" => (x_hooks /\ sys \in ByteReads)
        /\ kind # "invalid_opcode" => sys = "none"
        /\ sys # "sysret_bytes" => (r11 = BitsOf(582) /\ rcx = AddSmall(Reg(4096), 2))
        /\ sys \notin {"syscall_bytes", "sysret_bytes"} =>
               msr = (CHOOSE m \in MsrInputs : m.star_syscall = 16)
        /\ TakeExit([NoExit EXCEPT !.reason = "EXCEPTION_OR_NMI", !.kind = kind,
                                   !.sys = sys, !.cs = cs, !.len = len, !.rip = rip,
                                   !.rflags = rflags, !.r11 = r11, !.rcx = rcx,
                                   !.msr = msr, !.ss = IF is_system(cs) THEN 24 ELSE 43])

ExitUnhandled ==
    /\ GuestRuns
    /\ \E reason \in UnhandledReasons, len \in InstructionLengths, cs \in GuestCsSelectors :
        TakeExit([NoExit EXCEPT !.reason = reason, !.len = len, !.cs = cs])

\* enable_core launches the guest again on a processor that left VMX operation.
Launch ==
    /\ ~x_virt /\ ~x_down
    /\ x_virt' = TRUE
    /\ x_hooks' = FALSE
    /\ x_last' = NoneTaken
    /\ x_out' = NoOutcome
    /\ UNCHANGED x_down
    /\ UNCHANGED <<lifeVars, eptVars, auxVars>>

(***************************************************************************)
(* The lifecycle on NCpu processors.                                       *)
(***************************************************************************)
Kinds == {"enable", "disable"}

\* How enable_core can end on a processor that is not virtualised.
EnableOutcomes ==
    {"launched", "precheck_failed", "vmxon_failed", "vmclear_failed", "vmptrld_failed",
     "vmlaunch_failed"}

\* Values of the VM-instruction error field after a failed VMLAUNCH (entry
\* with invalid control fields, entry with invalid host-state fields).
VmInstructionErrors == {7, 8}

NoError == [what |-> "none", code |-> 0]

\* enter_root_mode_on_cpu whose failures after VMXON leave VMX operation on.
enter_root_mode_on_cpu_without_vmxoff(outcome) ==
    IF outcome = "vmxon_failed"
    THEN [entered |-> FALSE, steps |-> <<"vmxon_failed">>, what |-> "Failed to execute vmx_on"]
    ELSE IF outcome = "vmclear_failed"
    THEN [entered |-> FALSE, steps |-> <<"vmxon", "vmclear_failed">>,
          what |-> "Failed to clear vmcs"]
    ELSE IF outcome = "vmptrld_failed"
    THEN [entered |-> FALSE, steps |-> <<"vmxon", "vmclear", "vmptrld_failed">>,
          what |-> "Failed to load vmcs"]
    ELSE [entered |-> TRUE, steps |-> <<"vmxon", "vmclear", "vmptrld">>, what |-> "none"]

\* enter_root_mode_on_cpu: the VMX instructions it executes, in order, and
\* the exception it throws.  From the successful VMXON to the end a scope
\* guard executes VMXOFF when an exception leaves the function.
enter_root_mode_on_cpu(outcome) ==
    IF outcome = "vmxon_failed"
    THEN [entered |-> FALSE, steps |-> <<"vmxon_failed">>, what |-> "Failed to execute vmx_on"]
    ELSE IF outcome = "vmclear_failed"
    THEN [entered |-> FALSE, steps |-> <<"vmxon", "vmclear_failed", "vmxoff">>,
          what |-> "Failed to clear vmcs"]
    ELSE IF outcome = "vmptrld_failed"
    THEN [entered |-> FALSE, steps |-> <<"vmxon", "vmclear", "vmptrld_failed", "vmxoff">>,
          what |-> "Failed to load vmcs"]
    ELSE [entered |-> TRUE, steps |-> <<"vmxon", "vmclear", "vmptrld">>, what |-> "none"]

\* launch_vmx: VMLAUNCH; when it comes back, the VM-instruction error is
\* read, VMXOFF executed and the error returned.
launch_vmx(outcome, code) ==
    IF outcome = "launched"
    THEN [steps |-> <<"vmlaunch">>, error_code |-> 0]
    ELSE [steps |-> <<"vmlaunch_failed", "vmread_error", "vmxoff">>, error_code |-> code]

\* launch_hypervisor: enter_root_mode_on_cpu, setup_vmcs_for_cpu, launch_vmx,
\* and the exception with the error code when launch_vmx returns.
launch_hypervisor(outcome, code) ==
    IF ~enter_root_mode_on_cpu(outcome).entered
    THEN [launched |-> FALSE, steps |-> enter_root_mode_on_cpu(outcome).steps,
          error |-> [what |-> enter_root_mode_on_cpu(outcome).what, code |-> 0]]
    ELSE [launched |-> outcome = "launched",
          steps |-> enter_root_mode_on_cpu(outcome).steps \o launch_vmx(outcome, code).steps,
          error |-> IF outcome = "launched" THEN NoError
                    ELSE [what |-> "Failed to launch vmx",
                          code |-> launch_vmx(outcome, code).error_code]]

AllVirt == \A c \in CPUs : virt[c]

NoneVirt == \A c \in CPUs : ~virt[c]

\* hypervisor::is_enabled() evaluated on processor c.
is_enabled(c) == is_hypervisor_present(virt[c])

\* disable_core issuing the hook cookie in place of the exit cookie and
\* returning without the is_enabled() test.
disable_core_hook_cookie_unchecked(isVirt) ==
    [virt |-> isVirt /\ ~vmx_handle_cpuid(Reg(CookieEax), Reg(CookieHookEcx), KernelCs).exit_vm,
     bugcheck |-> FALSE]

(***************************************************************************)
(* disable_core on a processor: the exit cookie is issued; a virtualised   *)
(* processor leaves VMX operation when the handler sets exit_vm; then      *)
(* is_enabled() decides on KeBugCheckEx(DRIVER_VIOLATION).                 *)
(***************************************************************************)
disable_core(isVirt) ==
    LET after == isVirt /\ ~vmx_handle_cpuid(Reg(CookieEax), Reg(CookieExitEcx), KernelCs).exit_vm
    IN  [virt |-> after, bugcheck |-> is_hypervisor_present(after)]

(***************************************************************************)
(* enable_core on a processor, with the way the launch ends as input.      *)
(* ok: no exception reached try_enable_core.  On a processor that is       *)
(* already a guest, VMXON exits to vmx_handle_vmx, which sets CF, so       *)
(* __vmx_on reports failure and enter_root_mode_on_cpu throws.             *)
(***************************************************************************)
enable_core(isVirt, vmxe, ac, sce, outcome) ==
    IF isVirt
    THEN [ok |-> FALSE, virt |-> TRUE, vmxe |-> vmxe, ac |-> ac, sce |-> sce]
    ELSE IF outcome = "precheck_failed"
    THEN [ok |-> FALSE, virt |-> FALSE, vmxe |-> vmxe, ac |-> ac, sce |-> sce]
    ELSE IF ~launch_hypervisor(outcome, 0).launched
    THEN [ok |-> FALSE, virt |-> FALSE, vmxe |-> TRUE, ac |-> ac, sce |-> sce]
    ELSE LET present == is_hypervisor_present(TRUE)
             hooked  == present /\ vmx_handle_cpuid(Reg(CookieEax), Reg(CookieHookEcx), KernelCs).hooks
         IN  [ok |-> present, virt |-> TRUE, vmxe |-> TRUE, ac |-> TRUE,
              sce |-> IF hooked THEN FALSE ELSE sce]

InitLife ==
    /\ virt = [c \in CPUs |-> FALSE]
    /\ cr4_vmxe = [c \in CPUs |-> FALSE]
    /\ rflags_ac = [c \in CPUs |-> FALSE]
    /\ efer_sce = [c \in CPUs |-> TRUE]
    /\ hypervisor_was_enabled_ = FALSE
    /\ constructed = "no"
    /\ op = "idle"
    /\ round = "none"
    /\ rollback = FALSE
    /\ cur = 0
    /\ pc = "idle"
    /\ failures = 0
    /\ dpcq = [c \in CPUs |-> "none"]
    /\ running = [c \in CPUs |-> "none"]
    /\ released = [c \in CPUs |-> FALSE]
    /\ ran = [c \in CPUs |-> 0]
    /\ halted = "no"
    /\ lastRet = [op |-> "none", res |-> "none"]
    /\ lastCore = [cpu |-> 0, kind |-> "none", wasVirt |-> FALSE]
    /\ sleepSeen = FALSE
    /\ enabledBeforeSleep = FALSE
    /\ instance = "null"

(***************************************************************************)
(* thread::dispatch_on_all_cores, forward order: dispatch_on_specific_cpu  *)
(* for cpu_id 0 .. cpu_count-1.                                            *)
(***************************************************************************)
StartRound(kind, isRollback) ==
    /\ round' = kind
    /\ rollback' = isRollback
    /\ cur' = 0
    /\ pc' = "insert"
    /\ ran' = [c \in CPUs |-> 0]

\* The driver call returns to its caller.  The constructor's enable() decides
\* whether the hypervisor object exists afterwards.
Return(res) ==
    /\ lastRet' = [op |-> op, res |-> res]
    /\ constructed' = IF op = "ctor" THEN (IF res = "ok" THEN "yes" ELSE "failed")
                      ELSE constructed
    /\ instance' = IF (op = "ctor" /\ res # "ok") \/ op = "dtor" THEN "null" ELSE instance
    /\ op' = "idle"
    /\ round' = "none"
    /\ rollback' = FALSE
    /\ cur' = 0
    /\ pc' = "idle"

\* The constructor without its test of the registered instance.
ctor_register_unchecked(inst, this) == [threw |-> FALSE, instance |-> this]

\* hypervisor::hypervisor(), first statements: a registered instance makes
\* the constructor throw before anything is touched; otherwise the object
\* registers itself.
ctor_register(inst, this) ==
    IF inst # "null" THEN [threw |-> TRUE, instance |-> inst]
    ELSE [threw |-> FALSE, instance |-> this]

\* hypervisor::hypervisor() up to enable(): the object registers itself,
\* allocate_vm_states(), then failures = 0 and the enable round.
Construct ==
    /\ op = "idle" /\ halted = "no"
    /\ constructed = "no"
    /\ ~ctor_register(instance, "first").threw
    /\ instance' = ctor_register(instance, "first").instance
    /\ op' = "ctor"
    /\ failures' = 0
    /\ StartRound("enable", FALSE)
    /\ UNCHANGED <<virt, cr4_vmxe, rflags_ac, efer_sce, hypervisor_was_enabled_,
                   constructed, dpcq, running, released, halted, lastRet, lastCore,
                   sleepSeen, enabledBeforeSleep>>
    /\ UNCHANGED <<exitVars, eptVars, auxVars>>

\* The constructor of another hypervisor object runs while one is registered.
ConstructSecond ==
    /\ op = "idle" /\ halted = "no"
    /\ instance # "null"
    /\ instance' = ctor_register(instance, "second").instance
    /\ lastRet' = [op |-> "ctor2",
                   res |-> IF ctor_register(instance, "second").threw THEN "throw" ELSE "ok"]
    /\ UNCHANGED <<virt, cr4_vmxe, rflags_ac, efer_sce, hypervisor_was_enabled_, constructed,
                   op, round, rollback, cur, pc, failures, dpcq, running, released, ran,
                   halted, lastCore, sleepSeen, enabledBeforeSleep>>
    /\ UNCHANGED <<exitVars, eptVars, auxVars>>

\* hypervisor::~hypervisor(): disable(), the disable round.
Destroy ==
    /\ op = "idle" /\ halted = "no"
    /\ constructed = "yes"
    /\ constructed' = "destroyed"
    /\ UNCHANGED instance
    /\ op' = "dtor"
    /\ StartRound("disable", FALSE)
    /\ UNCHANGED <<virt, cr4_vmxe, rflags_ac, efer_sce, hypervisor_was_enabled_, failures,
                   dpcq, running, released, halted, lastRet, lastCore, sleepSeen,
                   enabledBeforeSleep>>
    /\ UNCHANGED <<exitVars, eptVars, auxVars>>

\* sleep_notification(sleep): is_enabled() is sampled on the processor the
\* notification thread happens to run on, then disable().
SleepNotification ==
    /\ op = "idle" /\ halted = "no"
    /\ constructed = "yes"
    /\ \E c \in CPUs : hypervisor_was_enabled_' = is_enabled(c)
    /\ op' = "sleep"
    /\ StartRound("disable", FALSE)
    /\ sleepSeen' = TRUE
    /\ enabledBeforeSleep' = AllVirt
    /\ UNCHANGED <<constructed, instance>>
    /\ UNCHANGED <<virt, cr4_vmxe, rflags_ac, efer_sce, failures, dpcq, running, released,
                   halted, lastRet, lastCore>>
    /\ UNCHANGED <<exitVars, eptVars, auxVars>>

\* sleep_notification(wakeup): enable() when hypervisor_was_enabled_.
WakeupNotification ==
    /\ op = "idle" /\ halted = "no"
    /\ constructed = "yes"
    /\ IF hypervisor_was_enabled_
       THEN /\ op' = "wakeup"
            /\ failures' = 0
            /\ StartRound("enable", FALSE)
            /\ UNCHANGED lastRet
       ELSE /\ lastRet' = [op |-> "wakeup", res |-> "ok"]
            /\ UNCHANGED <<op, failures, round, rollback, cur, pc, ran>>
    /\ UNCHANGED <<constructed, instance>>
    /\ UNCHANGED <<virt, cr4_vmxe, rflags_ac, efer_sce, hypervisor_was_enabled_, dpcq,
                   running, released, halted, lastCore, sleepSeen, enabledBeforeSleep>>
    /\ UNCHANGED <<exitVars, eptVars, auxVars>>

\* dispatch_on_specific_cpu up to KeInsertQueueDpc: a fresh KDPC on the stack,
\* targeted at cpu_id, is queued.
InsertQueueDpc ==
    /\ pc = "insert" /\ halted = "no"
    /\ dpcq' = [dpcq EXCEPT ![cur] = round]
    /\ pc' = "wait"
    /\ UNCHANGED <<constructed, instance>>
    /\ UNCHANGED <<virt, cr4_vmxe, rflags_ac, efer_sce, hypervisor_was_enabled_, op, round,
                   rollback, cur, failures, running, released, ran, halted, lastRet,
                   sleepSeen,
                   enabledBeforeSleep, lastCore>>
    /\ UNCHANGED <<exitVars, eptVars, auxVars>>

\* The target processor retires the DPC: the kernel takes it off the queue,
\* clears Dpc->DpcData and then calls the deferred routine.
RetireDpc(c) ==
    /\ halted = "no"
    /\ dpcq[c] # "none" /\ running[c] = "none"
    /\ running' = [running EXCEPT ![c] = dpcq[c]]
    /\ dpcq' = [dpcq EXCEPT ![c] = "none"]
    /\ ran' = [ran EXCEPT ![c] = @ + 1]
    /\ UNCHANGED <<constructed, instance>>
    /\ UNCHANGED <<virt, cr4_vmxe, rflags_ac, efer_sce, hypervisor_was_enabled_, op, round,
                   rollback, cur, pc, failures, released, halted, lastRet, sleepSeen,
                   enabledBeforeSleep, lastCore>>
    /\ UNCHANGED <<exitVars, eptVars, auxVars>>

(***************************************************************************)
(* The deferred routine on processor c: dispatch_callback calls the        *)
(* callback stored in dispatch_data.  For enable() the callback is         *)
(* try_enable_core plus InterlockedIncrement(&failures) on failure.  When  *)
(* the dispatcher's frame was released meanwhile, the increment goes to a  *)
(* dead stack slot: it reaches the 'failures' of a running enable() or is  *)
(* lost.                                                                   *)
(***************************************************************************)
EnableCallback(c) ==
    /\ halted = "no"
    /\ running[c] = "enable"
    /\ \E outcome \in EnableOutcomes :
         LET r == enable_core(virt[c], cr4_vmxe[c], rflags_ac[c], efer_sce[c], outcome)
         IN  /\ virt' = [virt EXCEPT ![c] = r.virt]
             /\ cr4_vmxe' = [cr4_vmxe EXCEPT ![c] = r.vmxe]
             /\ rflags_ac' = [rflags_ac EXCEPT ![c] = r.ac]
             /\ efer_sce' = [efer_sce EXCEPT ![c] = r.sce]
             /\ \E counted \in (IF released[c] THEN {round = "enable", FALSE} ELSE {TRUE}) :
                  failures' = IF ~r.ok /\ counted THEN failures + 1 ELSE failures
    /\ lastCore' = [cpu |-> c, kind |-> running[c], wasVirt |-> virt[c]]
    /\ running' = [running EXCEPT ![c] = "none"]
    /\ released' = [released EXCEPT ![c] = FALSE]
    /\ UNCHANGED <<constructed, instance>>
    /\ UNCHANGED <<hypervisor_was_enabled_, op, round, rollback, cur, pc, dpcq, ran, halted,
                   lastRet, sleepSeen, enabledBeforeSleep>>
    /\ UNCHANGED <<exitVars, eptVars, auxVars>>

\* For disable() the callback is disable_core.  VMXOFF leaves the host CR4
\* (VMCS_HOST_CR4, with VMXE) and the guest's RFLAGS and EFER in the registers.
DisableCallback(c) ==
    /\ halted = "no"
    /\ running[c] = "disable"
    /\ LET r == disable_core(virt[c])
       IN  /\ virt' = [virt EXCEPT ![c] = r.virt]
           /\ halted' = IF r.bugcheck THEN "bugcheck" ELSE halted
    /\ lastCore' = [cpu |-> c, kind |-> running[c], wasVirt |-> virt[c]]
    /\ running' = [running EXCEPT ![c] = "none"]
    /\ released' = [released EXCEPT ![c] = FALSE]
    /\ UNCHANGED <<constructed, instance>>
    /\ UNCHANGED <<cr4_vmxe, rflags_ac, efer_sce, hypervisor_was_enabled_, op, round,
                   rollback, cur, pc, failures, dpcq, ran, lastRet, sleepSeen,
                   enabledBeforeSleep>>
    /\ UNCHANGED <<exitVars, eptVars, auxVars>>

\* The routine reads its context (dispatch_data, the callback object) after
\* that stack memory was released and reused: the call goes astray.
UseAfterRelease(c) ==
    /\ halted = "no"
    /\ running[c] # "none" /\ released[c]
    /\ halted' = "crash"
    /\ UNCHANGED <<constructed, instance>>
    /\ UNCHANGED <<virt, cr4_vmxe, rflags_ac, efer_sce, hypervisor_was_enabled_, op, round,
                   rollback, cur, pc, failures, dpcq, running, released, ran, lastRet,
                   sleepSeen,
                   enabledBeforeSleep, lastCore>>
    /\ UNCHANGED <<exitVars, eptVars, auxVars>>

(***************************************************************************)
(* The wait loop of dispatch_on_specific_cpu ends as soon as dpc.DpcData   *)
(* reads nullptr; the function returns and its KDPC and dispatch_data go   *)
(* out of scope.                                                           *)
(***************************************************************************)
LeaveWaitLoop ==
    /\ pc = "wait" /\ halted = "no"
    /\ dpcq[cur] = "none"
    /\ released' = [released EXCEPT ![cur] = (running[cur] # "none")]

\* dispatch_on_all_cores goes on to the next processor.
NextCpu ==
    /\ LeaveWaitLoop
    /\ cur < NCpu - 1
    /\ cur' = cur + 1
    /\ pc' = "insert"
    /\ UNCHANGED <<constructed, instance>>
    /\ UNCHANGED <<virt, cr4_vmxe, rflags_ac, efer_sce, hypervisor_was_enabled_, op, round,
                   rollback, failures, dpcq, running, ran, halted, lastRet, sleepSeen,
                   enabledBeforeSleep, lastCore>>
    /\ UNCHANGED <<exitVars, eptVars, auxVars>>

\* enable(): the round is over and failures is non-zero: disable() is run.
EnableRollsBack ==
    /\ LeaveWaitLoop
    /\ cur = NCpu - 1
    /\ round = "enable" /\ failures # 0
    /\ StartRound("disable", TRUE)
    /\ UNCHANGED <<constructed, instance>>
    /\ UNCHANGED <<virt, cr4_vmxe, rflags_ac, efer_sce, hypervisor_was_enabled_, op,
                   failures, dpcq, running, halted, lastRet, sleepSeen,
                   enabledBeforeSleep, lastCore>>
    /\ UNCHANGED <<exitVars, eptVars, auxVars>>

\* The call returns normally: enable() with failures = 0, or disable().
ReturnNormally ==
    /\ LeaveWaitLoop
    /\ cur = NCpu - 1
    /\ ~rollback
    /\ round = "enable" => failures = 0
    /\ Return("ok")
    /\ UNCHANGED <<virt, cr4_vmxe, rflags_ac, efer_sce, hypervisor_was_enabled_, failures,
                   dpcq, running, ran, halted, sleepSeen,
                   enabledBeforeSleep, lastCore>>
    /\ UNCHANGED <<exitVars, eptVars, auxVars>>

\* enable(): disable() has returned; std::runtime_error is thrown.
ThrowAfterRollback ==
    /\ LeaveWaitLoop
    /\ cur = NCpu - 1
    /\ rollback
    /\ Return("throw")
    /\ UNCHANGED <<virt, cr4_vmxe, rflags_ac, efer_sce, hypervisor_was_enabled_, failures,
                   dpcq, running, ran, halted, sleepSeen,
                   enabledBeforeSleep, lastCore>>
    /\ UNCHANGED <<exitVars, eptVars, auxVars>>

(***************************************************************************)
(* Spec: the lifecycle on NCpu processors.                                 *)
(***************************************************************************)
(***************************************************************************)
(* The EPT engine and the hook operations of the hypervisor.               *)
(* One 2 MiB region with NPages 4 KiB pages is followed.                   *)
(***************************************************************************)
NPages == 2

Pages == 0..(NPages - 1)

\* The process that owns the hooks and watchpoints of page p.
OwnerOf(p) == p + 1

Pids == {OwnerOf(p) : p \in Pages}

\* What a translation of a page grants and which frame it names:
\*   orig   RWX to the original frame (identity map, no hook)
\*   rw     RW- to the original frame (hook, read/write view)
\*   exec   --X to the fake frame     (hook, execute view)
\*   watch  --X to the original frame (code watchpoint)
Views == {"orig", "rw", "exec", "watch"}

Accesses == {"read", "write", "fetch"}

Permits(view, access) ==
    IF view = "orig" THEN TRUE
    ELSE IF view = "rw" THEN access \in {"read", "write"}
    ELSE access = "fetch"

\* The byte at the patched offset of the frame a translation names: the fake
\* page carries the patch, the original page the original byte.
ByteVia(view) == IF view = "exec" THEN "patch" ELSE "original"

\* What a processor has cached: the translation of the page it touched last
\* (a cache of one entry; touching another page evicts it).
EmptyTlb == [page |-> 0, view |-> "none", stale |-> FALSE]

Cached(entry, p) == entry.view # "none" /\ entry.page = p

IdentityPt == [p \in Pages |-> "orig"]

\* The EPT walk for page p.
Walk(split, table, p) == IF split THEN table[p] ELSE "orig"

\* ept::initialize: every PD entry becomes a 2 MiB identity leaf again.
ept_initialize == [pd_split |-> FALSE, pt |-> IdentityPt]

\* ept::install_hook for page p: the page is split to 4 KiB granularity, the
\* fake page is allocated, the read/write view is installed and the hook is
\* registered.  A second hook on a hooked page merges into the existing one.
ept_install_hook(split, table, hooks, p, pid, outcome) ==
    IF hooks[p] # 0
    THEN [ok |-> TRUE, pd_split |-> split, pt |-> table, ept_hooks |-> hooks]
    ELSE IF outcome = "translation_failed"
    THEN [ok |-> FALSE, pd_split |-> split, pt |-> table, ept_hooks |-> hooks]
    ELSE IF outcome = "allocation_failed"
    THEN [ok |-> FALSE, pd_split |-> TRUE,
          pt |-> IF split THEN table ELSE IdentityPt, ept_hooks |-> hooks]
    ELSE [ok |-> TRUE, pd_split |-> TRUE,
          pt |-> [(IF split THEN table ELSE IdentityPt) EXCEPT ![p] = "rw"],
          ept_hooks |-> [hooks EXCEPT ![p] = pid]]

\* ept::install_code_watch_point for page p: split, execute-only entry on the
\* original frame, registration.
ept_install_code_watch_point(split, table, points, p, pid, outcome) ==
    IF points[p] # 0
    THEN [ok |-> TRUE, pd_split |-> split, pt |-> table, ept_code_watch_points |-> points]
    ELSE IF outcome # "installed"
    THEN [ok |-> FALSE, pd_split |-> split, pt |-> table, ept_code_watch_points |-> points]
    ELSE [ok |-> TRUE, pd_split |-> TRUE,
          pt |-> [(IF split THEN table ELSE IdentityPt) EXCEPT ![p] = "watch"],
          ept_code_watch_points |-> [points EXCEPT ![p] = pid]]

\* ept::disable_all_hooks: both lists are emptied, the entries restored and
\* the split page tables released.
ept_disable_all_hooks ==
    [pd_split |-> FALSE, pt |-> IdentityPt,
     ept_hooks |-> [p \in Pages |-> 0], ept_code_watch_points |-> [p \in Pages |-> 0]]

\* ept::cleanup_process: every hook and watchpoint of the process is removed
\* and its entry restored; true when something was removed.
ept_cleanup_process(table, hooks, points, process) ==
    [removed |-> \E p \in Pages : hooks[p] = process \/ points[p] = process,
     pt |-> [p \in Pages |-> IF hooks[p] = process \/ points[p] = process
                             THEN "orig" ELSE table[p]],
     ept_hooks |-> [p \in Pages |-> IF hooks[p] = process THEN 0 ELSE hooks[p]],
     ept_code_watch_points |-> [p \in Pages |-> IF points[p] = process THEN 0 ELSE points[p]]]

\* What the violation handler finds for page p: the hook wins over a watchpoint.
lookup(hooks, points, p) ==
    IF hooks[p] # 0 THEN "hook" ELSE IF points[p] # 0 THEN "watchpoint" ELSE "no_entry"

\* The entry handle_violation leaves for the page: the view that admits the
\* access for a hook, the execute-only entry again for a watchpoint once the
\* single-stepped access has completed.
ViewAfterViolation(found, access, view) ==
    IF found = "hook" THEN (IF access = "fetch" THEN "exec" ELSE "rw")
    ELSE IF found = "watchpoint" THEN "watch"
    ELSE view

\* The mode in which a processor executes the callback of
\* thread::dispatch_on_all_cores: once vm_launch has succeeded on it, all code
\* but vm_exit_handler runs in VMX non-root operation.
callback_mode(isVirt) == IF isVirt THEN "vmx_non_root" ELSE "no_vmx"

\* ept::invalidate on a processor (INVEPT, all contexts).  The callers run it
\* in a DPC: on a virtualised processor that is guest code, INVEPT causes a VM
\* exit, and cached translations are dropped only if the exit handler
\* emulates the instruction.  Outside VMX operation INVEPT raises #UD.
ept_invalidate(isVirt) ==
    IF ~isVirt THEN "invalid_opcode"
    ELSE IF vm_exit_handler([NoExit EXCEPT !.reason = "INVEPT", !.len = 3]).emulated = "invept"
    THEN "flushed"
    ELSE "ignored"

\* A hook operation has changed the walk of the pages in changed: what the
\* processors have cached for them is out of date (stale) from then on.
MarkStale(t, changed) ==
    [c \in CPUs |->
        IF t[c].view # "none" /\ t[c].page \in changed
        THEN [t[c] EXCEPT !.stale = TRUE] ELSE t[c]]

ChangedPages(split, table, split2, table2) ==
    {p \in Pages : Walk(split, table, p) # Walk(split2, table2, p)}

\* thread::dispatch_on_all_cores of the invalidation callback, run to
\* completion on every processor; checked: the callback tests is_enabled().
InvalidatedTlb(t, checked) ==
    [c \in CPUs |->
        IF (~checked \/ is_enabled(c)) /\ ept_invalidate(virt[c]) = "flushed"
        THEN EmptyTlb ELSE t[c]]

InvalidationFaults(checked) ==
    \E c \in CPUs : (~checked \/ is_enabled(c)) /\ ept_invalidate(virt[c]) = "invalid_opcode"

(***************************************************************************)
(* SpecEpt: the hypervisor is constructed and enabled; hooks and           *)
(* watchpoints are installed and removed, the guest touches the pages, and *)
(* the system sleeps and wakes.  Every call runs to completion, its        *)
(* cross-processor rounds included.                                        *)
(***************************************************************************)
NoAccess == [access |-> "none", value |-> "original"]

InstallOutcomes == {"installed", "translation_failed", "allocation_failed"}

InitEptState ==
    /\ pd_split = ept_initialize.pd_split
    /\ pt = ept_initialize.pt
    /\ ept_hooks = [p \in Pages |-> 0]
    /\ ept_code_watch_points = [p \in Pages |-> 0]
    /\ tlb = [c \in CPUs |-> EmptyTlb]
    /\ obs = NoAccess
    /\ e_halted = FALSE

\* The state the constructor leaves when enable() succeeded on every processor.
InitEnabled ==
    /\ virt = [c \in CPUs |-> TRUE]
    /\ cr4_vmxe = [c \in CPUs |-> TRUE]
    /\ rflags_ac = [c \in CPUs |-> TRUE]
    /\ efer_sce = [c \in CPUs |-> FALSE]
    /\ hypervisor_was_enabled_ = FALSE
    /\ constructed = "yes"
    /\ op = "idle"
    /\ round = "none"
    /\ rollback = FALSE
    /\ cur = 0
    /\ pc = "idle"
    /\ failures = 0
    /\ dpcq = [c \in CPUs |-> "none"]
    /\ running = [c \in CPUs |-> "none"]
    /\ released = [c \in CPUs |-> FALSE]
    /\ ran = [c \in CPUs |-> 0]
    /\ halted = "no"
    /\ lastRet = [op |-> "ctor", res |-> "ok"]
    /\ lastCore = [cpu |-> 0, kind |-> "none", wasVirt |-> FALSE]
    /\ sleepSeen = FALSE
    /\ enabledBeforeSleep = FALSE
    /\ instance = "first"

\* The lifecycle variables the hook operations and guest accesses leave alone.
lifeRest ==
    <<cr4_vmxe, rflags_ac, efer_sce, constructed, op, round, rollback, cur, pc, failures,
      dpcq, running, released, ran, halted, lastCore, enabledBeforeSleep, instance>>

\* A guest access of processor c to page p: it completes through the cached
\* translation or the walk, or it takes an EPT violation, which drops the
\* processor's cached translations and ends in handle_violation.
GuestAccess(c, p, a) ==
    /\ ~e_halted /\ virt[c]
    /\ LET view  == IF Cached(tlb[c], p) THEN tlb[c].view ELSE Walk(pd_split, pt, p)
           found == lookup(ept_hooks, ept_code_watch_points, p)
           fatal == vm_exit_handler([NoExit EXCEPT !.reason = "EPT_VIOLATION",
                                                   !.ept = found]).exit_vm
       IN  IF Permits(view, a)
           THEN /\ tlb' = [tlb EXCEPT ![c] = [page |-> p, view |-> view,
                                            stale |-> Cached(tlb[c], p) /\ tlb[c].stale]]
                /\ obs' = IF ept_hooks[p] # 0 /\ a # "write"
                          THEN [access |-> a, value |-> ByteVia(view)]
                          ELSE obs
                /\ UNCHANGED <<pd_split, pt, virt>>
           ELSE /\ tlb' = [tlb EXCEPT ![c] = EmptyTlb]
                /\ pt' = IF pd_split
                         THEN [pt EXCEPT ![p] = ViewAfterViolation(found, a, pt[p])]
                         ELSE pt
                /\ virt' = [virt EXCEPT ![c] = ~fatal]
                /\ UNCHANGED <<pd_split, obs>>
    /\ UNCHANGED <<ept_hooks, ept_code_watch_points, e_halted>>
    /\ UNCHANGED <<hypervisor_was_enabled_, lastRet, sleepSeen>>
    /\ UNCHANGED lifeRest
    /\ UNCHANGED <<exitVars, auxVars>>

\* hypervisor::install_ept_hook.
install_ept_hook(p, pid, outcome) ==
    /\ ~e_halted /\ constructed = "yes"
    /\ ept_code_watch_points[p] = 0
    /\ LET r == ept_install_hook(pd_split, pt, ept_hooks, p, pid, outcome)
       IN  /\ pd_split' = r.pd_split
           /\ pt' = r.pt
           /\ ept_hooks' = r.ept_hooks
           /\ tlb' = IF r.ok
                     THEN InvalidatedTlb(MarkStale(tlb, ChangedPages(pd_split, pt, r.pd_split, r.pt)),
                                         TRUE)
                     ELSE MarkStale(tlb, ChangedPages(pd_split, pt, r.pd_split, r.pt))
    /\ UNCHANGED <<ept_code_watch_points, obs, e_halted>>
    /\ UNCHANGED <<virt, hypervisor_was_enabled_, lastRet, sleepSeen>>
    /\ UNCHANGED lifeRest
    /\ UNCHANGED <<exitVars, auxVars>>

\* hypervisor::install_ept_code_watch_point.
install_ept_code_watch_point(p, pid, inval, outcome) ==
    /\ ~e_halted /\ constructed = "yes"
    /\ ept_hooks[p] = 0
    /\ LET r == ept_install_code_watch_point(pd_split, pt, ept_code_watch_points, p, pid, outcome)
           t == MarkStale(tlb, ChangedPages(pd_split, pt, r.pd_split, r.pt))
       IN  /\ pd_split' = r.pd_split
           /\ pt' = r.pt
           /\ ept_code_watch_points' = r.ept_code_watch_points
           /\ tlb' = IF r.ok /\ inval THEN InvalidatedTlb(t, FALSE) ELSE t
           /\ e_halted' = (r.ok /\ inval /\ InvalidationFaults(FALSE))
    /\ UNCHANGED <<ept_hooks, obs>>
    /\ UNCHANGED <<virt, hypervisor_was_enabled_, lastRet, sleepSeen>>
    /\ UNCHANGED lifeRest
    /\ UNCHANGED <<exitVars, auxVars>>

\* The loop of install_ept_code_watch_points over physical_pages.
RECURSIVE InstallPoints(_, _, _)
InstallPoints(s, pages, outs) ==
    IF pages = <<>> THEN s
    ELSE LET r == ept_install_code_watch_point(s.pd_split, s.pt, s.ept_code_watch_points,
                                               Head(pages), OwnerOf(Head(pages)),
                                               outs[Head(pages)])
         IN  InstallPoints([r EXCEPT !.ok = s.ok /\ r.ok], Tail(pages), outs)

PageLists == {<<0>>, <<0, 1>>, <<1, 0>>}

\* hypervisor::install_ept_code_watch_points.
install_ept_code_watch_points(pages, outs) ==
    /\ ~e_halted /\ constructed = "yes"
    /\ \A i \in 1..Len(pages) : ept_hooks[pages[i]] = 0
    /\ LET r == InstallPoints([ok |-> TRUE, pd_split |-> pd_split, pt |-> pt,
                               ept_code_watch_points |-> ept_code_watch_points],
                              pages, outs)
       IN  /\ pd_split' = r.pd_split
           /\ pt' = r.pt
           /\ ept_code_watch_points' = r.ept_code_watch_points
           /\ tlb' = InvalidatedTlb(MarkStale(tlb, ChangedPages(pd_split, pt, r.pd_split, r.pt)),
                                    FALSE)
           /\ e_halted' = InvalidationFaults(FALSE)
    /\ UNCHANGED <<ept_hooks, obs>>
    /\ UNCHANGED <<virt, hypervisor_was_enabled_, lastRet, sleepSeen>>
    /\ UNCHANGED lifeRest
    /\ UNCHANGED <<exitVars, auxVars>>

\* hypervisor::disable_all_ept_hooks.
disable_all_ept_hooks ==
    /\ ~e_halted /\ constructed = "yes"
    /\ LET r == ept_disable_all_hooks
       IN  /\ pd_split' = r.pd_split
           /\ pt' = r.pt
           /\ ept_hooks' = r.ept_hooks
           /\ ept_code_watch_points' = r.ept_code_watch_points
           /\ tlb' = InvalidatedTlb(MarkStale(tlb, ChangedPages(pd_split, pt, r.pd_split, r.pt)),
                                    TRUE)
    /\ UNCHANGED <<obs, e_halted>>
    /\ UNCHANGED <<virt, hypervisor_was_enabled_, lastRet, sleepSeen>>
    /\ UNCHANGED lifeRest
    /\ UNCHANGED <<exitVars, auxVars>>

\* hypervisor::cleanup_process.
cleanup_process(process) ==
    /\ ~e_halted /\ constructed = "yes"
    /\ LET r == ept_cleanup_process(pt, ept_hooks, ept_code_watch_points, process)
           t == MarkStale(tlb, ChangedPages(pd_split, pt, pd_split, r.pt))
       IN  /\ pt' = r.pt
           /\ ept_hooks' = r.ept_hooks
           /\ ept_code_watch_points' = r.ept_code_watch_points
           /\ tlb' = IF r.removed THEN InvalidatedTlb(t, TRUE) ELSE t
    /\ UNCHANGED <<pd_split, obs, e_halted>>
    /\ UNCHANGED <<virt, hypervisor_was_enabled_, lastRet, sleepSeen>>
    /\ UNCHANGED lifeRest
    /\ UNCHANGED <<exitVars, auxVars>>

\* sleep_notification(sleep) run to completion: is_enabled() is remembered,
\* disable() leaves the guest on every processor, and the system enters the
\* sleep state, which empties what the processors have cached.
SleepCompletes ==
    /\ ~e_halted /\ constructed = "yes"
    /\ \E c \in CPUs : hypervisor_was_enabled_' = is_enabled(c)
    /\ virt' = [c \in CPUs |-> disable_core(virt[c]).virt]
    /\ e_halted' = \E c \in CPUs : disable_core(virt[c]).bugcheck
    /\ tlb' = [c \in CPUs |-> EmptyTlb]
    /\ sleepSeen' = TRUE
    /\ UNCHANGED <<pd_split, pt, ept_hooks, ept_code_watch_points, obs, lastRet>>
    /\ UNCHANGED lifeRest
    /\ UNCHANGED <<exitVars, auxVars>>

\* sleep_notification(wakeup) run to completion: enable() when
\* hypervisor_was_enabled_, that is ept::initialize, enable_core on every
\* processor and disable() when one of them failed.
WakeupCompletes(outs) ==
    /\ ~e_halted /\ constructed = "yes"
    /\ IF hypervisor_was_enabled_
       THEN LET r == [c \in CPUs |-> enable_core(virt[c], cr4_vmxe[c], rflags_ac[c],
                                                 efer_sce[c], outs[c])]
                failed == \E c \in CPUs : ~r[c].ok
            IN  /\ pd_split' = ept_initialize.pd_split
                /\ pt' = ept_initialize.pt
                /\ virt' = [c \in CPUs |-> IF failed THEN disable_core(r[c].virt).virt
                                           ELSE r[c].virt]
                /\ cr4_vmxe' = [c \in CPUs |-> r[c].vmxe]
                /\ rflags_ac' = [c \in CPUs |-> r[c].ac]
                /\ efer_sce' = [c \in CPUs |-> r[c].sce]
       ELSE /\ UNCHANGED <<pd_split, pt, virt, cr4_vmxe, rflags_ac, efer_sce>>
    /\ UNCHANGED <<ept_hooks, ept_code_watch_points, tlb, obs, e_halted>>
    /\ UNCHANGED <<hypervisor_was_enabled_, sleepSeen, lastRet, constructed, op, round, rollback, cur,
                   pc, failures, dpcq, running, released, ran, halted, lastCore,
                   enabledBeforeSleep, instance>>
    /\ UNCHANGED <<exitVars, auxVars>>

WakeOutcomes == {"launched", "vmlaunch_failed"}

WatchOutcomes == {"installed", "split_failed"}

(***************************************************************************)
(* SpecReg: the hook lookup table.  Registrations and removals run one at  *)
(* a time under the hook lock; find_hook runs on another processor without *)
(* the lock, one memory access per step.                                   *)
(***************************************************************************)
MaxHooks == 3

Slots == 0..(MaxHooks - 1)

\* Hook objects; two of them can be made for every page.
HookObjs == 1..(2 * NPages)

\* optimized_ept_hook::base_address of a hook object, as a page number.
base_address(h) == (h - 1) % NPages

\* simple_ept_lookup::find_hook run without interference: the first slot
\* below hook_count_ that holds a hook of the page, or nullptr.
RECURSIVE find_from(_, _, _, _)
find_from(table, count, aligned, i) ==
    IF i >= count THEN 0
    ELSE IF table[i] # 0 /\ base_address(table[i]) = aligned THEN table[i]
    ELSE find_from(table, count, aligned, i + 1)

find_hook(table, count, aligned) == find_from(table, count, aligned, 0)

\* A registration that never looks for a hook of the page.
get_or_create_ept_hook_always_new(table, count, aligned, fresh) ==
    [hook |-> fresh, created |-> TRUE]

\* ept::get_or_create_ept_hook: the hook of the page if the table has one,
\* otherwise a new hook object for the page.
get_or_create_ept_hook(table, count, aligned, fresh) ==
    IF find_hook(table, count, aligned) # 0
    THEN [hook |-> find_hook(table, count, aligned), created |-> FALSE]
    ELSE [hook |-> fresh, created |-> TRUE]

\* Index of a hook in the table (remove_hook's search loop).
index_of(table, count, h) ==
    IF \E i \in Slots : i < count /\ table[i] = h
    THEN CHOOSE i \in Slots : i < count /\ table[i] = h /\
                              \A k \in Slots : (k < i) => table[k] # h
    ELSE MaxHooks

Searching == f_pc \in {"loop", "null_check", "base_check", "ret"}

NoRequest == [page |-> 0, hook |-> 0, created |-> FALSE, had |-> 0, count |-> 0]

InitReg ==
    /\ hooks_ = [i \in Slots |-> 0]
    /\ hook_count_ = 0
    /\ registered = {}
    /\ m_pc = "idle" /\ m_hook = 0 /\ m_j = 0
    /\ m_last = NoRequest
    /\ f_pc = "idle" /\ f_i = 0 /\ f_page = 0 /\ f_res = 0
    /\ f_stable = {} /\ f_ever = {}

mutVars == <<hooks_, hook_count_, registered, m_pc, m_hook, m_j, m_last>>
findVars == <<f_pc, f_i, f_page, f_res>>
otherVars ==
    <<lifeVars, exitVars, eptVars, stateVars, msrVars, ctorVars, lookupVars, watchVars,
      clientVars, seqVars, fetchVars>>

\* A hook is requested for a page under the hook lock.  An existing hook is
\* returned as it is; a new one goes on to add_hook, which refuses it when
\* the table is full.
RegisterHook(aligned) ==
    /\ m_pc = "idle"
    /\ \E fresh \in HookObjs :
        /\ base_address(fresh) = aligned
        /\ \A i \in Slots : hooks_[i] # fresh
        /\ m_last' = [page |-> aligned, count |-> hook_count_,
                      had |-> find_hook(hooks_, hook_count_, aligned)]
                     @@ get_or_create_ept_hook(hooks_, hook_count_, aligned, fresh)
    /\ IF m_last'.created /\ hook_count_ < MaxHooks
       THEN /\ m_pc' = "add" /\ m_hook' = m_last'.hook
            /\ f_ever' = IF Searching /\ f_page = aligned
                         THEN f_ever \cup {m_last'.hook} ELSE f_ever
       ELSE UNCHANGED <<m_pc, m_hook, f_ever>>
    /\ UNCHANGED <<hooks_, hook_count_, registered, m_j, findVars, f_stable, otherVars>>

\* add_hook, hooks_[hook_count_++] = hook: the store to the slot becomes
\* visible first ...
AddStore ==
    /\ m_pc = "add"
    /\ hooks_' = [hooks_ EXCEPT ![hook_count_] = m_hook]
    /\ m_pc' = "add_count"
    /\ UNCHANGED <<hook_count_, registered, m_hook, m_j, m_last, findVars, f_stable, f_ever,
                   otherVars>>

AddCount ==
    /\ m_pc = "add_count"
    /\ hook_count_' = hook_count_ + 1
    /\ registered' = registered \cup {m_hook}
    /\ m_pc' = "idle"
    /\ UNCHANGED <<hooks_, m_hook, m_j, m_last, findVars, f_stable, f_ever, otherVars>>

\* ... or the new count becomes visible first.
AddCountEarly ==
    /\ m_pc = "add"
    /\ m_j' = hook_count_
    /\ hook_count_' = hook_count_ + 1
    /\ m_pc' = "add_slot"
    /\ UNCHANGED <<hooks_, registered, m_hook, m_last, findVars, f_stable, f_ever, otherVars>>

AddStoreLate ==
    /\ m_pc = "add_slot"
    /\ hooks_' = [hooks_ EXCEPT ![m_j] = m_hook]
    /\ registered' = registered \cup {m_hook}
    /\ m_pc' = "idle"
    /\ UNCHANGED <<hook_count_, m_hook, m_j, m_last, findVars, f_stable, f_ever, otherVars>>

\* remove_hook of a registered hook, up to the match of its search loop.
RemoveHook(h) ==
    /\ m_pc = "idle"
    /\ h \in registered
    /\ registered' = registered \ {h}
    /\ f_stable' = IF Searching THEN f_stable \ {h} ELSE f_stable
    /\ m_hook' = h
    /\ m_j' = index_of(hooks_, hook_count_, h) + 1
    /\ m_pc' = "shift"
    /\ UNCHANGED <<hooks_, hook_count_, m_last, findVars, f_ever, otherVars>>

\* remove_hook: for (j = i + 1; j < hook_count_; ++j) hooks_[j - 1] = hooks_[j].
RemoveShift ==
    /\ m_pc = "shift"
    /\ IF m_j < hook_count_
       THEN /\ hooks_' = [hooks_ EXCEPT ![m_j - 1] = hooks_[m_j]]
            /\ m_j' = m_j + 1
            /\ UNCHANGED m_pc
       ELSE /\ m_pc' = "dec"
            /\ UNCHANGED <<hooks_, m_j>>
    /\ UNCHANGED <<hook_count_, registered, m_hook, m_last, findVars, f_stable, f_ever,
                   otherVars>>

\* remove_hook: --hook_count_.
RemoveDecrement ==
    /\ m_pc = "dec"
    /\ hook_count_' = hook_count_ - 1
    /\ m_pc' = "clear"
    /\ UNCHANGED <<hooks_, registered, m_hook, m_j, m_last, findVars, f_stable, f_ever,
                   otherVars>>

\* remove_hook: hooks_[hook_count_] = nullptr; return true.
RemoveClear ==
    /\ m_pc = "clear"
    /\ hooks_' = [hooks_ EXCEPT ![hook_count_] = 0]
    /\ m_pc' = "idle"
    /\ UNCHANGED <<hook_count_, registered, m_hook, m_j, m_last, findVars, f_stable, f_ever,
                   otherVars>>

\* find_hook begins: aligned = physical_addr & ~0xFFF, i = 0.
FindBegin(aligned) ==
    /\ f_pc \in {"idle", "done"}
    /\ f_pc' = "loop" /\ f_i' = 0 /\ f_page' = aligned /\ f_res' = 0
    /\ f_stable' = {h \in registered : base_address(h) = aligned}
    /\ f_ever' = {h \in registered \cup (IF m_pc # "idle" THEN {m_hook} ELSE {}) :
                    base_address(h) = aligned}
    /\ UNCHANGED <<mutVars, otherVars>>

\* find_hook: i < hook_count_.
FindLoopTest ==
    /\ f_pc = "loop"
    /\ IF f_i < hook_count_
       THEN f_pc' = "null_check" /\ UNCHANGED f_res
       ELSE f_pc' = "done" /\ f_res' = 0
    /\ UNCHANGED <<f_i, f_page, f_stable, f_ever, mutVars, otherVars>>

\* find_hook: hooks_[i] && ...
FindNullCheck ==
    /\ f_pc = "null_check"
    /\ IF hooks_[f_i] # 0
       THEN f_pc' = "base_check" /\ UNCHANGED f_i
       ELSE f_pc' = "loop" /\ f_i' = f_i + 1
    /\ UNCHANGED <<f_page, f_res, f_stable, f_ever, mutVars, otherVars>>

\* find_hook: hooks_[i]->base_address.raw() == aligned, the slot read again;
\* a slot cleared meanwhile is dereferenced as a null pointer.
FindBaseCheck ==
    /\ f_pc = "base_check"
    /\ IF hooks_[f_i] = 0
       THEN f_pc' = "done" /\ f_res' = -1 /\ UNCHANGED f_i
       ELSE IF base_address(hooks_[f_i]) = f_page
            THEN f_pc' = "ret" /\ UNCHANGED <<f_i, f_res>>
            ELSE f_pc' = "loop" /\ f_i' = f_i + 1 /\ UNCHANGED f_res
    /\ UNCHANGED <<f_page, f_stable, f_ever, mutVars, otherVars>>

\* find_hook: return hooks_[i], the slot read once more.
FindReturn ==
    /\ f_pc = "ret"
    /\ f_res' = hooks_[f_i]
    /\ f_pc' = "done"
    /\ UNCHANGED <<f_i, f_page, f_stable, f_ever, mutVars, otherVars>>

NextReg ==
    \/ \E aligned \in Pages : RegisterHook(aligned)
    \/ AddStore
    \/ AddCount
    \/ AddCountEarly
    \/ AddStoreLate
    \/ \E h \in HookObjs : RemoveHook(h)
    \/ RemoveShift
    \/ RemoveDecrement
    \/ RemoveClear
    \/ \E aligned \in Pages : FindBegin(aligned)
    \/ FindLoopTest
    \/ FindNullCheck
    \/ FindBaseCheck
    \/ FindReturn

(***************************************************************************)
(* SpecState: the vmx::state objects.  allocate_vm_states has made one per *)
(* processor; every processor goes through enable_core, the launch, VM     *)
(* exits and the exit that ends the virtualisation.                        *)
(***************************************************************************)
KERNEL_STACK_SIZE == 24576

SizeofContext == 1232

PAGE_SIZE == 4096

\* sizeof(vmx::state): the union of stack_buffer and launch_context, then
\* msr_bitmap, vmx_on, vmcs and ept, each aligned to a page.
SizeofState == KERNEL_STACK_SIZE + 4 * PAGE_SIZE

\* Offsets of the members of vmx::state.
OffsetStack == 0
OffsetLaunchContext == 0
OffsetVmxOn == KERNEL_STACK_SIZE + PAGE_SIZE
OffsetVmcs == KERNEL_STACK_SIZE + 2 * PAGE_SIZE

\* vm_states_[i] as allocate_vm_states leaves it: separate page-aligned
\* objects.
vm_states_(i) == (i + 1) * (SizeofState + PAGE_SIZE)

\* The index of the state an address lies in, -1 if it lies in none.
StateOf(addr) ==
    IF \E i \in CPUs : vm_states_(i) <= addr /\ addr < vm_states_(i) + SizeofState
    THEN CHOOSE i \in CPUs : vm_states_(i) <= addr /\ addr < vm_states_(i) + SizeofState
    ELSE -1

\* hypervisor::get_current_vm_state on processor current_core; 0 is nullptr.
get_current_vm_state(current_core) ==
    IF current_core >= NCpu THEN 0 ELSE vm_states_(current_core)

\* resolve_vm_state_from_context without sizeof(CONTEXT).
resolve_vm_state_from_stack_top(context) == context - KERNEL_STACK_SIZE

\* resolve_vm_state_from_context(context), context being the address of the
\* CONTEXT on the host stack.
resolve_vm_state_from_context(context) == context + SizeofContext - KERNEL_STACK_SIZE

\* setup_vmcs_for_cpu: the stack pointer written to VMCS_GUEST_RSP and
\* VMCS_HOST_RSP.
stack_pointer(vm_state) == vm_state + OffsetStack + KERNEL_STACK_SIZE - SizeofContext

\* The entry stubs vm_launch and vm_exit hand the handler the CONTEXT that
\* lies at the stack pointer the processor entered with.
stub_context(rsp) == rsp

ExitReasons == {"CPUID", "VMCALL", "EPT_VIOLATION"}

InitState ==
    /\ s_pc = [c \in CPUs |-> "off"]
    /\ s_cur = [c \in CPUs |-> 0]
    /\ s_vmcs = [c \in CPUs |-> 0]
    /\ s_host_rsp = [i \in CPUs |-> 0]
    /\ s_guest_rsp = [i \in CPUs |-> 0]
    /\ s_resolved = [c \in CPUs |-> 0]
    /\ s_reason = [c \in CPUs |-> "none"]
    /\ s_writes = [c \in CPUs |-> {}]
    /\ s_launched = [i \in CPUs |-> FALSE]
    /\ s_steps = [c \in CPUs |-> <<>>]
    /\ s_ret = [c \in CPUs |-> "none"]
    /\ s_error = [c \in CPUs |-> NoError]
    /\ s_vm_error = [c \in CPUs |-> 0]

stateRest ==
    <<lifeVars, exitVars, eptVars, regVars, msrVars, ctorVars, lookupVars, watchVars,
      clientVars, seqVars, fetchVars>>

tryVars == <<s_steps, s_ret, s_error, s_vm_error>>

Wrote(c, addrs) == [s_writes EXCEPT ![c] = @ \cup {StateOf(a) : a \in addrs}]

\* launch_context.launched of the state at vm_state set to value; a store
\* through a pointer that lies in no state reaches no launch context.
Launched(launched, vm_state, value) ==
    IF StateOf(vm_state) \in CPUs
    THEN [launched EXCEPT ![StateOf(vm_state)] = value]
    ELSE launched

\* vm_launch_handler that goes back to the captured context without
\* setting launched.
vm_launch_handler_keeps_launched(launched, vm_state) == launched

\* vm_launch_handler: launched is set in the launch context of the resolved
\* state, then restore_context goes back to where capture_cpu_context
\* returned in enable_core.
vm_launch_handler(launched, vm_state) == Launched(launched, vm_state, TRUE)

\* enable_core from the return of capture_cpu_context on, entered as the
\* guest: with launched set the launch is skipped; without it
\* launch_hypervisor runs again and its VMXON, executed by the guest, exits
\* to vmx_handle_vmx and reports failure.
after_capture(launched, steps) ==
    IF launched
    THEN [steps |-> steps,
          ret |-> IF is_hypervisor_present(TRUE) THEN "true" ELSE "false",
          error |-> IF is_hypervisor_present(TRUE) THEN NoError
                    ELSE [what |-> "Hypervisor is not present", code |-> 0]]
    ELSE [steps |-> steps \o enter_root_mode_on_cpu("vmxon_failed").steps,
          ret |-> "false",
          error |-> [what |-> enter_root_mode_on_cpu("vmxon_failed").what, code |-> 0]]

\* enable_core up to capture_cpu_context: the state of the processor is
\* looked up and its launch context written.
StateCapture(c) ==
    /\ s_pc[c] = "off"
    /\ s_cur' = [s_cur EXCEPT ![c] = get_current_vm_state(c)]
    /\ s_writes' = Wrote(c, {s_cur'[c] + OffsetLaunchContext})
    /\ s_launched' = Launched(s_launched, s_cur'[c], FALSE)
    /\ s_pc' = [s_pc EXCEPT ![c] = "captured"]
    /\ s_steps' = [s_steps EXCEPT ![c] = <<>>]
    /\ s_ret' = [s_ret EXCEPT ![c] = "none"]
    /\ s_error' = [s_error EXCEPT ![c] = NoError]
    /\ s_vm_error' = [s_vm_error EXCEPT ![c] = 0]
    /\ UNCHANGED <<s_vmcs, s_host_rsp, s_guest_rsp, s_resolved, s_reason, stateRest>>

\* enter_root_mode_on_cpu: revision ids and physical addresses are written
\* into the state, then VMXON, VMCLEAR and VMPTRLD of its VMCS; a failure
\* ends enable_core.
StateEnterRoot(c) ==
    /\ s_pc[c] = "captured"
    /\ s_writes' = Wrote(c, {s_cur[c] + OffsetLaunchContext, s_cur[c] + OffsetVmxOn,
                             s_cur[c] + OffsetVmcs})
    /\ \E outcome \in EnableOutcomes \ {"precheck_failed", "vmlaunch_failed"} :
        /\ s_pc' = [s_pc EXCEPT ![c] =
                IF enter_root_mode_on_cpu(outcome).entered THEN "root" ELSE "off"]
        /\ s_vmcs' = [s_vmcs EXCEPT ![c] =
                IF enter_root_mode_on_cpu(outcome).entered THEN s_cur[c] + OffsetVmcs ELSE 0]
        /\ s_steps' = [s_steps EXCEPT ![c] = enter_root_mode_on_cpu(outcome).steps]
        /\ s_ret' = [s_ret EXCEPT ![c] =
                IF enter_root_mode_on_cpu(outcome).entered THEN "none" ELSE "false"]
        /\ s_error' = [s_error EXCEPT ![c] =
                IF enter_root_mode_on_cpu(outcome).entered THEN NoError
                ELSE launch_hypervisor(outcome, 0).error]
    /\ UNCHANGED <<s_cur, s_host_rsp, s_guest_rsp, s_resolved, s_reason, s_launched,
                   s_vm_error, stateRest>>

\* setup_vmcs_for_cpu: VMWRITE goes to the VMCS that is current on the
\* processor.
StateSetupVmcs(c) ==
    /\ s_pc[c] = "root"
    /\ s_host_rsp' = [s_host_rsp EXCEPT ![StateOf(s_vmcs[c])] = stack_pointer(s_cur[c])]
    /\ s_guest_rsp' = [s_guest_rsp EXCEPT ![StateOf(s_vmcs[c])] = stack_pointer(s_cur[c])]
    /\ s_writes' = Wrote(c, {s_vmcs[c]})
    /\ s_pc' = [s_pc EXCEPT ![c] = "ready"]
    /\ UNCHANGED <<s_cur, s_vmcs, s_resolved, s_reason, s_launched, tryVars, stateRest>>

\* launch_vmx and vm_launch_handler: the guest starts in vm_launch on the
\* guest stack pointer of the VMCS; the handler resolves the state and sets
\* launched in its launch context, and enable_core goes on as the guest
\* behind capture_cpu_context, where it tests launched of its own state.  A failed VMLAUNCH comes back to launch_vmx and
\* ends in the exception of launch_hypervisor.
StateLaunch(c) ==
    /\ s_pc[c] = "ready"
    /\ \E outcome \in {"launched", "vmlaunch_failed"}, code \in VmInstructionErrors :
        /\ IF launch_hypervisor(outcome, code).launched
           THEN /\ s_resolved' = [s_resolved EXCEPT ![c] =
                       resolve_vm_state_from_context(
                           stub_context(s_guest_rsp[StateOf(s_vmcs[c])]))]
                /\ s_writes' = Wrote(c, {s_resolved'[c] + OffsetLaunchContext})
                /\ s_launched' = vm_launch_handler(s_launched, s_resolved'[c])
                /\ s_pc' = [s_pc EXCEPT ![c] = "guest"]
                /\ LET rest == after_capture(s_launched'[StateOf(s_cur[c])],
                                             launch_hypervisor(outcome, code).steps)
                   IN  /\ s_steps' = [s_steps EXCEPT ![c] = rest.steps]
                       /\ s_ret' = [s_ret EXCEPT ![c] = rest.ret]
                       /\ s_error' = [s_error EXCEPT ![c] = rest.error]
                /\ UNCHANGED <<s_vmcs, s_vm_error>>
           ELSE /\ s_pc' = [s_pc EXCEPT ![c] = "off"]
                /\ s_vmcs' = [s_vmcs EXCEPT ![c] = 0]
                /\ s_steps' = [s_steps EXCEPT ![c] = launch_hypervisor(outcome, code).steps]
                /\ s_ret' = [s_ret EXCEPT ![c] = "false"]
                /\ s_error' = [s_error EXCEPT ![c] = launch_hypervisor(outcome, code).error]
                /\ s_vm_error' = [s_vm_error EXCEPT ![c] = code]
                /\ UNCHANGED <<s_resolved, s_writes, s_launched>>
    /\ UNCHANGED <<s_cur, s_host_rsp, s_guest_rsp, s_reason, stateRest>>

\* A VM exit: the processor loads RSP from the host-state area of its VMCS,
\* vm_exit stores the CONTEXT there, vm_exit_handler resolves the state.
StateExit(c) ==
    /\ s_pc[c] = "guest"
    /\ \E reason \in ExitReasons : s_reason' = [s_reason EXCEPT ![c] = reason]
    /\ s_resolved' = [s_resolved EXCEPT ![c] =
            resolve_vm_state_from_context(stub_context(s_host_rsp[StateOf(s_vmcs[c])]))]
    /\ s_writes' = Wrote(c, {stub_context(s_host_rsp[StateOf(s_vmcs[c])]),
                             stub_context(s_host_rsp[StateOf(s_vmcs[c])]) + SizeofContext - 1})
    /\ s_pc' = [s_pc EXCEPT ![c] = "host"]
    /\ UNCHANGED <<s_cur, s_vmcs, s_host_rsp, s_guest_rsp, s_launched, tryVars, stateRest>>

\* vm_exit_handler ends: VMRESUME.
StateResume(c) ==
    /\ s_pc[c] = "host"
    /\ s_pc' = [s_pc EXCEPT ![c] = "guest"]
    /\ s_reason' = [s_reason EXCEPT ![c] = "none"]
    /\ UNCHANGED <<s_cur, s_vmcs, s_host_rsp, s_guest_rsp, s_resolved, s_writes, s_launched,
                   tryVars, stateRest>>

\* vm_exit_handler ends with exit_vm set (the CPUID cookie of disable_core):
\* the descriptor tables are restored from the launch context of the
\* resolved state, then VMXOFF.
StateExitVm(c) ==
    /\ s_pc[c] = "host" /\ s_reason[c] = "CPUID"
    /\ s_pc' = [s_pc EXCEPT ![c] = "off"]
    /\ s_vmcs' = [s_vmcs EXCEPT ![c] = 0]
    /\ s_reason' = [s_reason EXCEPT ![c] = "none"]
    /\ UNCHANGED <<s_cur, s_host_rsp, s_guest_rsp, s_resolved, s_writes, s_launched, tryVars,
                   stateRest>>

NextState ==
    \/ \E c \in CPUs : StateCapture(c)
    \/ \E c \in CPUs : StateEnterRoot(c)
    \/ \E c \in CPUs : StateSetupVmcs(c)
    \/ \E c \in CPUs : StateLaunch(c)
    \/ \E c \in CPUs : StateExit(c)
    \/ \E c \in CPUs : StateResume(c)
    \/ \E c \in CPUs : StateExitVm(c)

(***************************************************************************)
(* The VM-execution controls: initialize_msrs reads the capability MSRs    *)
(* into msr_data, setup_vmcs_for_cpu writes each control as                *)
(* adjust_msr(msr_data[k], desired).                                       *)
(***************************************************************************)
\* Bit positions of a control that the model follows.
ControlBits == {0, 1, 31}

\* Capability MSR values: bits 31:0 are the allowed 0-settings (a set bit
\* there means the control bit must be 1), bits 63:32 the allowed 1-settings.
ControlValues == SUBSET (ControlBits \cup {i + 32 : i \in ControlBits})

\* Desired values, uint64_t.
DesiredValues == SUBSET (ControlBits \cup {32})

\* ULARGE_INTEGER::LowPart and ::HighPart.
LowPart(v) == {i \in v : i < 32}

HighPart(v) == {i - 32 : i \in {j \in v : j >= 32}}

\* adjust_msr without the bits the capability MSR requires to be set.
adjust_msr_without_allowed0(control_value, desired_value) ==
    Truncate32(desired_value) \cap HighPart(control_value)

\* adjust_msr: the desired value truncated to 32 bits, and-ed with HighPart,
\* then or-ed with LowPart.
adjust_msr(control_value, desired_value) ==
    (Truncate32(desired_value) \cap HighPart(control_value)) \cup LowPart(control_value)

InitMsr ==
    /\ a_pc = "idle"
    /\ a_control = {}
    /\ a_desired = {}
    /\ a_result = {}

msrRest ==
    <<lifeVars, exitVars, eptVars, regVars, stateVars, ctorVars, lookupVars, watchVars,
      clientVars, seqVars, fetchVars>>

\* initialize_msrs: msr_data[i] = __readmsr(IA32_VMX_BASIC + i).
ReadCapability ==
    /\ \E v \in ControlValues : a_control' = v
    /\ a_pc' = "read"
    /\ a_desired' = {}
    /\ a_result' = {}
    /\ UNCHANGED msrRest

\* setup_vmcs_for_cpu: a control is written as adjust_msr(msr_data[k], desired).
SetupControl ==
    /\ a_pc = "read"
    /\ \E d \in DesiredValues :
        /\ a_desired' = d
        /\ a_result' = adjust_msr(a_control, d)
    /\ a_pc' = "written"
    /\ UNCHANGED a_control
    /\ UNCHANGED msrRest

NextMsr ==
    \/ ReadCapability
    \/ SetupControl

(***************************************************************************)
(* SpecCtor: hypervisor::hypervisor() and ~hypervisor() of one object and  *)
(* the memory the object owns.                                             *)
(***************************************************************************)
\* The objects of one hypervisor: vm_states_[i] for i < cpu count, the array
\* vm_states_ and the ept object.
ArrayObject == NCpu

EptObject == NCpu + 1

Objects == 0..EptObject

NoCount == [o \in Objects |-> 0]

NoStates == [c \in CPUs |-> FALSE]

NoReturn == [op |-> "none", res |-> "none", msg |-> "none"]

\* free_vm_states that leaves the ept object alone.
free_vm_states_keeps_ept(array, states, ept, frees) ==
    [array |-> FALSE, states |-> NoStates, ept |-> ept,
     frees |-> [o \in Objects |->
                  IF array /\ ((o \in CPUs /\ states[o]) \/ o = ArrayObject)
                  THEN frees[o] + 1 ELSE frees[o]]]

\* free_vm_states: with vm_states_ set, every entry goes through
\* free_aligned_object (nothing happens for a null entry), the array is
\* deleted and the pointer and count are cleared; with ept_ set, the ept
\* object is freed and the pointer cleared.
free_vm_states(array, states, ept, frees) ==
    [array |-> FALSE, states |-> NoStates, ept |-> FALSE,
     frees |-> [o \in Objects |->
                  IF \/ array /\ ((o \in CPUs /\ states[o]) \/ o = ArrayObject)
                     \/ ept /\ o = EptObject
                  THEN frees[o] + 1 ELSE frees[o]]]

InitCtor ==
    /\ h_pc = "idle"
    /\ h_instance = "null"
    /\ h_ept = FALSE
    /\ h_array = FALSE
    /\ h_states = NoStates
    /\ h_i = 0
    /\ h_allocs = NoCount
    /\ h_frees = NoCount
    /\ h_steps = <<>>
    /\ h_ret = NoReturn

ctorRest ==
    <<lifeVars, exitVars, eptVars, regVars, stateVars, msrVars, lookupVars, watchVars,
      clientVars, seqVars, fetchVars>>

\* An exception leaves the constructor: the scope guard runs free_vm_states()
\* and instance = nullptr, and the caller gets the exception.
Unwind(msg) ==
    /\ LET f == free_vm_states(h_array, h_states, h_ept, h_frees)
       IN  /\ h_array' = f.array
           /\ h_states' = f.states
           /\ h_ept' = f.ept
           /\ h_frees' = f.frees
    /\ h_instance' = "null"
    /\ h_ret' = [op |-> "ctor", res |-> "throw", msg |-> msg]
    /\ h_pc' = "idle"
    /\ UNCHANGED <<h_i, h_allocs, h_steps>>

\* hypervisor::hypervisor(), first statements, for an object that does not
\* exist yet: with an instance registered the constructor throws before the
\* scope guard exists; otherwise the guard is armed and instance = this.
CtorRegister ==
    /\ h_pc \in {"idle", "live"}
    /\ LET r == ctor_register(h_instance, "this")
       IN  IF r.threw
           THEN /\ h_ret' = [op |-> "ctor", res |-> "throw",
                             msg |-> "Hypervisor already instantiated"]
                /\ UNCHANGED <<h_pc, h_instance, h_ept, h_array, h_states, h_i, h_allocs,
                               h_frees, h_steps>>
           ELSE /\ h_instance' = r.instance
                /\ h_pc' = "supported"
                /\ h_allocs' = NoCount
                /\ h_frees' = NoCount
                /\ h_steps' = <<>>
                /\ UNCHANGED <<h_ept, h_array, h_states, h_i, h_ret>>
    /\ UNCHANGED ctorRest

\* if (!is_vmx_supported()) throw.
CtorCheckSupported ==
    /\ h_pc = "supported"
    /\ \E is_vmx_supported \in BOOLEAN :
         IF is_vmx_supported
         THEN /\ h_pc' = "available"
              /\ UNCHANGED <<h_instance, h_ept, h_array, h_states, h_i, h_allocs, h_frees,
                             h_steps, h_ret>>
         ELSE Unwind("VMX not supported on this machine")
    /\ UNCHANGED ctorRest

\* if (!is_vmx_available()) throw.
CtorCheckAvailable ==
    /\ h_pc = "available"
    /\ \E is_vmx_available \in BOOLEAN :
         IF is_vmx_available
         THEN /\ h_pc' = "ept"
              /\ UNCHANGED <<h_instance, h_ept, h_array, h_states, h_i, h_allocs, h_frees,
                             h_steps, h_ret>>
         ELSE Unwind("VMX not available on this machine")
    /\ UNCHANGED ctorRest

\* allocate_vm_states, the ept object: allocated when ept_ is null.
AllocateEpt ==
    /\ h_pc = "ept"
    /\ \E allocated \in BOOLEAN :
         IF h_ept \/ allocated
         THEN /\ h_ept' = TRUE
              /\ h_allocs' = IF h_ept THEN h_allocs
                             ELSE [h_allocs EXCEPT ![EptObject] = @ + 1]
              /\ h_pc' = "array"
              /\ UNCHANGED <<h_instance, h_array, h_states, h_i, h_frees, h_steps, h_ret>>
         ELSE Unwind("Failed to allocate ept object")
    /\ UNCHANGED ctorRest

\* allocate_vm_states, the array: vm_states_ must be null; operator new[]
\* throws when the pool is exhausted; the entries start as nullptr.
AllocateArray ==
    /\ h_pc = "array"
    /\ \E allocated \in BOOLEAN :
         IF h_array
         THEN Unwind("VM states are still in use")
         ELSE IF allocated
         THEN /\ h_array' = TRUE
              /\ h_states' = NoStates
              /\ h_allocs' = [h_allocs EXCEPT ![ArrayObject] = @ + 1]
              /\ h_i' = 0
              /\ h_pc' = "state"
              /\ UNCHANGED <<h_instance, h_ept, h_frees, h_steps, h_ret>>
         ELSE Unwind("Memory allocation failed")
    /\ UNCHANGED ctorRest

\* allocate_vm_states, one turn of the loop: vm_states_[i] is allocated and
\* given the ept pointer, or the function throws.
AllocateState ==
    /\ h_pc = "state"
    /\ \E allocated \in BOOLEAN :
         IF allocated
         THEN /\ h_states' = [h_states EXCEPT ![h_i] = TRUE]
              /\ h_allocs' = [h_allocs EXCEPT ![h_i] = @ + 1]
              /\ h_i' = IF h_i + 1 < NCpu THEN h_i + 1 ELSE 0
              /\ h_pc' = IF h_i + 1 < NCpu THEN "state" ELSE "enable"
              /\ UNCHANGED <<h_instance, h_ept, h_array, h_frees, h_steps, h_ret>>
         ELSE Unwind("Failed to allocate VM state entries")
    /\ UNCHANGED ctorRest

\* this->enable(), the enable round, then destructor.cancel(): with no
\* failure counted the object exists; otherwise enable() goes on to disable().
CtorEnable ==
    /\ h_pc = "enable"
    /\ \E failed \in BOOLEAN :
         IF failed
         THEN /\ h_pc' = "rollback"
              /\ UNCHANGED h_ret
         ELSE /\ h_pc' = "live"
              /\ h_ret' = [op |-> "ctor", res |-> "ok", msg |-> "none"]
    /\ UNCHANGED <<h_instance, h_ept, h_array, h_states, h_i, h_allocs, h_frees, h_steps>>
    /\ UNCHANGED ctorRest

\* enable() after failures: this->disable() has returned and enable() throws.
CtorRollback ==
    /\ h_pc = "rollback"
    /\ Unwind("Hypervisor initialization failed")
    /\ UNCHANGED ctorRest

\* ~hypervisor(): this->disable_all_ept_hooks().
DtorDisableHooks ==
    /\ h_pc = "live"
    /\ h_pc' = "dtor_disable"
    /\ h_steps' = <<"disable_all_ept_hooks">>
    /\ UNCHANGED <<h_instance, h_ept, h_array, h_states, h_i, h_allocs, h_frees, h_ret>>
    /\ UNCHANGED ctorRest

\* ~hypervisor(): this->disable().
DtorDisable ==
    /\ h_pc = "dtor_disable"
    /\ h_pc' = "dtor_free"
    /\ h_steps' = Append(h_steps, "disable")
    /\ UNCHANGED <<h_instance, h_ept, h_array, h_states, h_i, h_allocs, h_frees, h_ret>>
    /\ UNCHANGED ctorRest

\* ~hypervisor(): this->free_vm_states(); instance = nullptr.
DtorFree ==
    /\ h_pc = "dtor_free"
    /\ LET f == free_vm_states(h_array, h_states, h_ept, h_frees)
       IN  /\ h_array' = f.array
           /\ h_states' = f.states
           /\ h_ept' = f.ept
           /\ h_frees' = f.frees
    /\ h_instance' = "null"
    /\ h_steps' = Append(h_steps, "free_vm_states")
    /\ h_ret' = [op |-> "dtor", res |-> "ok", msg |-> "none"]
    /\ h_pc' = "idle"
    /\ UNCHANGED <<h_i, h_allocs>>
    /\ UNCHANGED ctorRest

NextCtor ==
    \/ CtorRegister
    \/ CtorCheckSupported
    \/ CtorCheckAvailable
    \/ AllocateEpt
    \/ AllocateArray
    \/ AllocateState
    \/ CtorEnable
    \/ CtorRollback
    \/ DtorDisableHooks
    \/ DtorDisable
    \/ DtorFree

(***************************************************************************)
(* SpecLookup: simple_ept_lookup called by one caller at a time: entries   *)
(* are added, removed and looked up, each call running to its end.         *)
(***************************************************************************)
MaxWatchpoints == MaxHooks - 1

TableKinds == {"hook", "watchpoint"}

Capacity(kind) == IF kind = "hook" THEN MaxHooks ELSE MaxWatchpoints

\* The objects a table can be given: one more than it has room for.
Entries(kind) == 1..(Capacity(kind) + 1)

EmptyTable(kind) == [i \in 0..(Capacity(kind) - 1) |-> 0]

\* add_hook without its test of the count.
add_hook_unchecked(table, count, hook) ==
    [ok |-> TRUE,
     table |-> [i \in DOMAIN table |-> IF i = count THEN hook ELSE table[i]],
     count |-> count + 1]

\* add_hook and add_watchpoint: refused when the table is full, otherwise
\* table[count++] = entry.
add_hook(table, count, hook) ==
    IF count >= MaxHooks THEN [ok |-> FALSE, table |-> table, count |-> count]
    ELSE [ok |-> TRUE, table |-> [table EXCEPT ![count] = hook], count |-> count + 1]

add_watchpoint(table, count, watchpoint) ==
    IF count >= MaxWatchpoints THEN [ok |-> FALSE, table |-> table, count |-> count]
    ELSE [ok |-> TRUE, table |-> [table EXCEPT ![count] = watchpoint], count |-> count + 1]

\* The outer loop of remove_hook and remove_watchpoint: the first i below
\* count with table[i] == entry, count when there is none.
RECURSIVE search_from(_, _, _, _)
search_from(table, count, entry, i) ==
    IF i >= count THEN count
    ELSE IF table[i] = entry THEN i
    ELSE search_from(table, count, entry, i + 1)

\* The inner loop: for (j = i + 1; j < count; ++j) table[j - 1] = table[j].
RECURSIVE shift_from(_, _, _)
shift_from(table, count, j) ==
    IF j >= count THEN table
    ELSE shift_from([table EXCEPT ![j - 1] = table[j]], count, j + 1)

\* remove_hook that leaves hook_count_ as it was.
remove_hook_keeps_count(table, count, hook) ==
    LET i == search_from(table, count, hook, 0)
    IN  IF i >= count THEN [ok |-> FALSE, table |-> table, count |-> count]
        ELSE [ok |-> TRUE,
              table |-> [shift_from(table, count, i + 1) EXCEPT ![count - 1] = 0],
              count |-> count]

\* remove_hook: at the first match the entries behind it move down one slot,
\* the count is decremented, the vacated last slot is cleared, true is
\* returned; without a match false is returned.
remove_hook(table, count, hook) ==
    LET i == search_from(table, count, hook, 0)
    IN  IF i >= count THEN [ok |-> FALSE, table |-> table, count |-> count]
        ELSE [ok |-> TRUE,
              table |-> [shift_from(table, count, i + 1) EXCEPT ![count - 1] = 0],
              count |-> count - 1]

\* remove_watchpoint: the same statements on watchpoints_.
remove_watchpoint(table, count, watchpoint) ==
    LET i == search_from(table, count, watchpoint, 0)
    IN  IF i >= count THEN [ok |-> FALSE, table |-> table, count |-> count]
        ELSE [ok |-> TRUE,
              table |-> [shift_from(table, count, i + 1) EXCEPT ![count - 1] = 0],
              count |-> count - 1]

\* find_watchpoint: the first watch point of the page below the count.
find_watchpoint(table, count, aligned) == find_from(table, count, aligned, 0)

NoCall == [op |-> "none", kind |-> "none", entry |-> 0, page |-> 0, ok |-> FALSE,
           found |-> 0]

\* simple_ept_lookup::clear, and what the constructor leaves.
clear ==
    [hooks |-> EmptyTable("hook"), hook_count |-> 0,
     watchpoints |-> EmptyTable("watchpoint"), watchpoint_count |-> 0]

InitLookup ==
    /\ l_hooks = EmptyTable("hook")
    /\ l_hook_count = 0
    /\ l_watchpoints = EmptyTable("watchpoint")
    /\ l_watchpoint_count = 0
    /\ l_registered = [kind \in TableKinds |-> {}]
    /\ l_last = NoCall

lookupRest ==
    <<lifeVars, exitVars, eptVars, regVars, stateVars, msrVars, ctorVars, watchVars,
      clientVars, seqVars, fetchVars>>

TableOf(kind) == IF kind = "hook" THEN l_hooks ELSE l_watchpoints

CountOf(kind) == IF kind = "hook" THEN l_hook_count ELSE l_watchpoint_count

\* The entries of a table, first slot first.
Live(table, count) == [i \in 1..count |-> table[i - 1]]

Holds(kind, entry) == \E i \in 1..CountOf(kind) : TableOf(kind)[i - 1] = entry

\* The call has returned r: the table of that kind is what r says.
Store(kind, r) ==
    /\ l_hooks' = IF kind = "hook" THEN r.table ELSE l_hooks
    /\ l_hook_count' = IF kind = "hook" THEN r.count ELSE l_hook_count
    /\ l_watchpoints' = IF kind = "watchpoint" THEN r.table ELSE l_watchpoints
    /\ l_watchpoint_count' = IF kind = "watchpoint" THEN r.count ELSE l_watchpoint_count

\* add_hook or add_watchpoint of an object the table does not hold.
TableAdd(kind, entry) ==
    /\ ~Holds(kind, entry)
    /\ LET r == IF kind = "hook" THEN add_hook(l_hooks, l_hook_count, entry)
                ELSE add_watchpoint(l_watchpoints, l_watchpoint_count, entry)
       IN  /\ Store(kind, r)
           /\ l_registered' = IF r.ok THEN [l_registered EXCEPT ![kind] = @ \cup {entry}]
                               ELSE l_registered
           /\ l_last' = [op |-> "add", kind |-> kind, entry |-> entry,
                         page |-> base_address(entry), ok |-> r.ok, found |-> 0]
    /\ UNCHANGED lookupRest

\* remove_hook or remove_watchpoint of any object, held or not.
TableRemove(kind, entry) ==
    /\ LET r == IF kind = "hook" THEN remove_hook(l_hooks, l_hook_count, entry)
                ELSE remove_watchpoint(l_watchpoints, l_watchpoint_count, entry)
       IN  /\ Store(kind, r)
           /\ l_registered' = IF r.ok THEN [l_registered EXCEPT ![kind] = @ \ {entry}]
                               ELSE l_registered
           /\ l_last' = [op |-> "remove", kind |-> kind, entry |-> entry,
                         page |-> base_address(entry), ok |-> r.ok, found |-> 0]
    /\ UNCHANGED lookupRest

\* find_hook or find_watchpoint of a page.
TableFind(kind, aligned) ==
    /\ LET found == IF kind = "hook" THEN find_hook(l_hooks, l_hook_count, aligned)
                    ELSE find_watchpoint(l_watchpoints, l_watchpoint_count, aligned)
       IN  l_last' = [op |-> "find", kind |-> kind, entry |-> 0, page |-> aligned,
                      ok |-> found # 0, found |-> found]
    /\ UNCHANGED <<l_hooks, l_hook_count, l_watchpoints, l_watchpoint_count, l_registered>>
    /\ UNCHANGED lookupRest

\* clear(): every slot of both arrays is set to nullptr, both counts to 0.
TableClear ==
    /\ l_hooks' = clear.hooks
    /\ l_hook_count' = clear.hook_count
    /\ l_watchpoints' = clear.watchpoints
    /\ l_watchpoint_count' = clear.watchpoint_count
    /\ l_registered' = [kind \in TableKinds |-> {}]
    /\ l_last' = [NoCall EXCEPT !.op = "clear", !.ok = TRUE]
    /\ UNCHANGED lookupRest

NextLookup ==
    \/ \E kind \in TableKinds : \E entry \in Entries(kind) : TableAdd(kind, entry)
    \/ \E kind \in TableKinds : \E entry \in Entries(kind) : TableRemove(kind, entry)
    \/ \E kind \in TableKinds, aligned \in Pages : TableFind(kind, aligned)
    \/ TableClear

(***************************************************************************)
(* SpecWatch: hypervisor::install_ept_code_watch_points, one statement at  *)
(* a time: the loop over physical_pages, the invalidation round, return.   *)
(***************************************************************************)
\* for (size_t i = 0; i < count; ++i) stopped by the first failure.
loop_condition_while_success(i, count, success) == i < count /\ success

\* for (size_t i = 0; i < count; ++i).
loop_condition(i, count, success) == i < count

\* success &= install_ept_code_watch_point(...).
and_assign(success, installed) == success /\ installed

InitWatch ==
    /\ w_pc = "idle"
    /\ w_pages = <<>>
    /\ w_i = 0
    /\ w_success = TRUE
    /\ w_ept = [pd_split |-> FALSE, pt |-> IdentityPt,
                ept_code_watch_points |-> [p \in Pages |-> 0]]
    /\ w_log = <<>>
    /\ w_ret = "none"

watchRest ==
    <<lifeVars, exitVars, eptVars, regVars, stateVars, msrVars, ctorVars, lookupVars,
      clientVars, seqVars, fetchVars>>

\* The call is made: bool success = true.
WatchBegin(pages) ==
    /\ w_pc \in {"idle", "done"}
    /\ w_pages' = pages
    /\ w_i' = 0
    /\ w_success' = TRUE
    /\ w_log' = <<>>
    /\ w_ret' = "none"
    /\ w_pc' = "loop"
    /\ UNCHANGED w_ept
    /\ UNCHANGED watchRest

\* One turn of the loop: install_ept_code_watch_point(physical_pages[i], ...,
\* invalidate = false) installs the watch point, or ept::install_code_watch_point
\* throws, which is caught and becomes false.
WatchInstall ==
    /\ w_pc = "loop"
    /\ loop_condition(w_i, Len(w_pages), w_success)
    /\ \E outcome \in WatchOutcomes :
         LET p == w_pages[w_i + 1]
             r == ept_install_code_watch_point(w_ept.pd_split, w_ept.pt,
                                               w_ept.ept_code_watch_points, p, OwnerOf(p),
                                               outcome)
         IN  /\ w_ept' = [pd_split |-> r.pd_split, pt |-> r.pt,
                          ept_code_watch_points |-> r.ept_code_watch_points]
             /\ w_success' = and_assign(w_success, r.ok)
             /\ w_log' = Append(w_log, [what |-> "install", page |-> p, cpu |-> 0, ok |-> r.ok])
    /\ w_i' = w_i + 1
    /\ UNCHANGED <<w_pc, w_pages, w_ret>>
    /\ UNCHANGED watchRest

\* The loop is over: thread::dispatch_on_all_cores of ept::invalidate begins.
WatchLoopEnds ==
    /\ w_pc = "loop"
    /\ ~loop_condition(w_i, Len(w_pages), w_success)
    /\ w_pc' = "invalidate"
    /\ w_i' = 0
    /\ UNCHANGED <<w_pages, w_success, w_ept, w_log, w_ret>>
    /\ UNCHANGED watchRest

\* The round reaches the next processor: its callback calls ept::invalidate.
WatchInvalidate ==
    /\ w_pc = "invalidate"
    /\ w_i < NCpu
    /\ w_log' = Append(w_log, [what |-> "invalidate", page |-> 0, cpu |-> w_i, ok |-> TRUE])
    /\ w_i' = w_i + 1
    /\ UNCHANGED <<w_pc, w_pages, w_success, w_ept, w_ret>>
    /\ UNCHANGED watchRest

\* return success.
WatchReturn ==
    /\ w_pc = "invalidate"
    /\ w_i = NCpu
    /\ w_ret' = IF w_success THEN "true" ELSE "false"
    /\ w_pc' = "done"
    /\ UNCHANGED <<w_pages, w_i, w_success, w_ept, w_log>>
    /\ UNCHANGED watchRest

\* hypervisor::cleanup_process between two calls: the watch points of a
\* process are taken out again.
WatchCleanup(process) ==
    /\ w_pc \in {"idle", "done"}
    /\ LET r == ept_cleanup_process(w_ept.pt, [p \in Pages |-> 0],
                                    w_ept.ept_code_watch_points, process)
       IN  w_ept' = [w_ept EXCEPT !.pt = r.pt,
                                  !.ept_code_watch_points = r.ept_code_watch_points]
    /\ UNCHANGED <<w_pc, w_pages, w_i, w_success, w_log, w_ret>>
    /\ UNCHANGED watchRest

NextWatch ==
    \/ \E pages \in PageLists : WatchBegin(pages)
    \/ WatchInstall
    \/ WatchLoopEnds
    \/ WatchInvalidate
    \/ WatchReturn
    \/ \E process \in Pids : WatchCleanup(process)

(***************************************************************************)
(* The specifications.                                                     *)
(***************************************************************************)
(***************************************************************************)
(* The client library.  get_driver_device keeps a driver and a             *)
(* driver_device in function-local statics; hyperhook_initialize and       *)
(* hyperhook_write use the device it returns.  What opening the device,    *)
(* loading the driver and DeviceIoControl do is the operating system's     *)
(* answer, an input of each call.                                          *)
(***************************************************************************)
\* How opening \\.\HyperHook can end, and how loading the driver can end.
OpenOutcomes == {"opened", "throws"}

LoadOutcomes == {"loaded", "throws"}

\* How driver_device::send can end: the driver carried the request out, the
\* driver refused it (send returns false), or an exception.
SendOutcomes == {"accepted", "rejected", "throws"}

ClientPids == {4, 8}

ClientAddresses == {4096, 8192}

\* get_driver_device: the device when it is open; else one attempt to open
\* it whose exception is swallowed; else the driver is loaded if it is not,
\* and the device opened again, exceptions going to the caller.
get_driver_device(driver, device, open1, load, open2) ==
    IF device \/ open1 = "opened"
    THEN [driver |-> driver, device |-> TRUE, thrown |-> FALSE]
    ELSE IF ~driver /\ load = "throws"
    THEN [driver |-> FALSE, device |-> FALSE, thrown |-> TRUE]
    ELSE [driver |-> TRUE, device |-> open2 = "opened", thrown |-> open2 # "opened"]

\* hyperhook_initialize: 1 when get_driver_device gave an open device, 0 when
\* it threw.
hyperhook_initialize(driver, device, open1, load, open2) ==
    LET d == get_driver_device(driver, device, open1, load, open2)
    IN  [driver |-> d.driver, device |-> d.device,
         ret |-> IF ~d.thrown /\ d.device THEN 1 ELSE 0]

\* patch_data: the hook_request is sent with HOOK_DRV_IOCTL and the value
\* send returns is discarded; only an exception of send leaves patch_data
\* other than by its end.
patch_data(send) ==
    [delivered |-> TRUE, accepted |-> send = "accepted", thrown |-> send = "throws"]

NotSent == [delivered |-> FALSE, accepted |-> FALSE, thrown |-> FALSE]

\* hyperhook_write: 0 when hyperhook_initialize gives 0; else patch_data on
\* the device, 1 when it returns and 0 when it throws or the device is not
\* open.
hyperhook_write(driver, device, open1, load, open2, send) ==
    LET init == hyperhook_initialize(driver, device, open1, load, open2)
        sent == IF init.ret = 1 /\ init.device THEN patch_data(send) ELSE NotSent
    IN  [driver |-> init.driver, device |-> init.device, initialized |-> init.ret = 1,
         delivered |-> sent.delivered, accepted |-> sent.accepted,
         ret |-> IF sent.delivered /\ ~sent.thrown THEN 1 ELSE 0]

NoClientCall ==
    [fn |-> "none", pid |-> 0, address |-> 0, initialized |-> FALSE, delivered |-> FALSE,
     accepted |-> FALSE, ret |-> 0]

InitClient ==
    /\ u_driver = FALSE
    /\ u_device = FALSE
    /\ u_patched = {}
    /\ u_last = NoClientCall

clientRest ==
    <<lifeVars, exitVars, eptVars, regVars, stateVars, msrVars, ctorVars, lookupVars,
      watchVars, seqVars, fetchVars>>

\* A call of hyperhook_initialize().
ClientInitialize ==
    \E open1 \in OpenOutcomes, load \in LoadOutcomes, open2 \in OpenOutcomes :
        LET r == hyperhook_initialize(u_driver, u_device, open1, load, open2)
        IN  /\ u_driver' = r.driver
            /\ u_device' = r.device
            /\ u_last' = [NoClientCall EXCEPT !.fn = "initialize",
                                              !.initialized = (r.ret = 1), !.ret = r.ret]
            /\ UNCHANGED <<u_patched, clientRest>>

\* A call of hyperhook_write(pid, address, data, size).
ClientWrite(pid, address) ==
    \E open1 \in OpenOutcomes, load \in LoadOutcomes, open2 \in OpenOutcomes,
       send \in SendOutcomes :
        LET r == hyperhook_write(u_driver, u_device, open1, load, open2, send)
        IN  /\ u_driver' = r.driver
            /\ u_device' = r.device
            /\ u_patched' = IF r.accepted THEN u_patched \cup {<<pid, address>>}
                            ELSE u_patched
            /\ u_last' = [fn |-> "write", pid |-> pid, address |-> address,
                          initialized |-> r.initialized, delivered |-> r.delivered,
                          accepted |-> r.accepted, ret |-> r.ret]
            /\ UNCHANGED clientRest

NextClient ==
    \/ ClientInitialize
    \/ \E pid \in ClientPids, address \in ClientAddresses : ClientWrite(pid, address)

(***************************************************************************)
(* sequential_callback_dispatcher as the deferred routine of a DPC that    *)
(* runs on all processors at once.  KeSignalCallDpcSynchronize is the      *)
(* kernel's barrier of these DPCs: a processor that calls it goes on when  *)
(* every processor has called it for that round.                           *)
(***************************************************************************)
\* How the callback can end inside dispatch_callback: it returns, or it
\* throws and the exception is caught and logged.
CallbackOutcomes == {"returned", "caught"}

\* The test of the loop body with the callback run in every round.
is_current_cpu_in_every_round(i, current_cpu) == TRUE

\* if (i == current_cpu)
is_current_cpu(i, current_cpu) == i = current_cpu

InitSeq ==
    /\ q_pc = [c \in CPUs |-> "idle"]
    /\ q_i = [c \in CPUs |-> 0]
    /\ q_count = 0
    /\ q_released = 0
    /\ q_order = <<>>
    /\ q_ended = [c \in CPUs |-> "none"]

seqRest ==
    <<lifeVars, exitVars, eptVars, regVars, stateVars, msrVars, ctorVars, lookupVars,
      watchVars, clientVars, fetchVars>>

\* The DPC starts on processor c: cpu_count and current_cpu are read, i = 0.
SeqEnter(c) ==
    /\ q_pc[c] = "idle"
    /\ q_pc' = [q_pc EXCEPT ![c] = "test"]
    /\ q_i' = [q_i EXCEPT ![c] = 0]
    /\ UNCHANGED <<q_count, q_released, q_order, q_ended, seqRest>>

\* The head of the loop and the test of the body: past the last round the
\* loop ends; in its own round the processor calls dispatch_callback; in
\* the others it goes to the barrier.
SeqTest(c) ==
    /\ q_pc[c] = "test"
    /\ IF ~(q_i[c] < NCpu)
       THEN /\ q_pc' = [q_pc EXCEPT ![c] = "signal"]
            /\ UNCHANGED q_order
       ELSE IF is_current_cpu(q_i[c], c)
       THEN /\ q_pc' = [q_pc EXCEPT ![c] = "callback"]
            /\ q_order' = Append(q_order, c)
       ELSE /\ q_pc' = [q_pc EXCEPT ![c] = "barrier"]
            /\ UNCHANGED q_order
    /\ UNCHANGED <<q_i, q_count, q_released, q_ended, seqRest>>

\* dispatch_callback comes back: the callback returned or its exception was
\* caught.
SeqCallback(c) ==
    /\ q_pc[c] = "callback"
    /\ \E outcome \in CallbackOutcomes : q_ended' = [q_ended EXCEPT ![c] = outcome]
    /\ q_pc' = [q_pc EXCEPT ![c] = "barrier"]
    /\ UNCHANGED <<q_i, q_count, q_released, q_order, seqRest>>

\* KeSignalCallDpcSynchronize is entered: the processor is counted; the last
\* one to arrive completes the round.
SeqArrive(c) ==
    /\ q_pc[c] = "barrier"
    /\ IF q_count + 1 = NCpu
       THEN q_count' = 0 /\ q_released' = q_released + 1
       ELSE q_count' = q_count + 1 /\ UNCHANGED q_released
    /\ q_pc' = [q_pc EXCEPT ![c] = "spin"]
    /\ UNCHANGED <<q_i, q_order, q_ended, seqRest>>

\* KeSignalCallDpcSynchronize returns once the round the processor arrived
\* in is complete; ++i.
SeqPass(c) ==
    /\ q_pc[c] = "spin"
    /\ q_released > q_i[c]
    /\ q_i' = [q_i EXCEPT ![c] = @ + 1]
    /\ q_pc' = [q_pc EXCEPT ![c] = "test"]
    /\ UNCHANGED <<q_count, q_released, q_order, q_ended, seqRest>>

\* KeSignalCallDpcDone(arg1).
SeqDone(c) ==
    /\ q_pc[c] = "signal"
    /\ q_pc' = [q_pc EXCEPT ![c] = "done"]
    /\ UNCHANGED <<q_i, q_count, q_released, q_order, q_ended, seqRest>>

\* Every processor has signalled completion: the generic DPC call returns
\* to its caller, and the dispatcher can be queued again.
SeqReturn ==
    /\ \A c \in CPUs : q_pc[c] = "done"
    /\ q_pc' = [c \in CPUs |-> "idle"]
    /\ q_i' = [c \in CPUs |-> 0]
    /\ q_released' = 0
    /\ q_order' = <<>>
    /\ q_ended' = [c \in CPUs |-> "none"]
    /\ UNCHANGED <<q_count, seqRest>>

NextSeq ==
    \/ \E c \in CPUs : SeqEnter(c)
    \/ \E c \in CPUs : SeqTest(c)
    \/ \E c \in CPUs : SeqCallback(c)
    \/ \E c \in CPUs : SeqArrive(c)
    \/ \E c \in CPUs : SeqPass(c)
    \/ \E c \in CPUs : SeqDone(c)
    \/ SeqReturn

(***************************************************************************)
(* A guest instruction on a hooked page.  The processor fetches it, then   *)
(* performs its data access; an access the installed entry does not grant  *)
(* is an EPT violation: handle_violation installs the entry for the kind   *)
(* of access, the cached translations of the page are dropped, and, RIP    *)
(* not being advanced, the instruction starts again with its fetch.        *)
(***************************************************************************)
\* Instructions executed before the model stops issuing new ones.
MaxInsns == 2

\* The largest number i_exits counts to; further violations leave it there.
MaxExits == 3

DataAccesses == {"none", "read", "write"}

\* A page without hook or watchpoint, where operands can lie as well.
PlainPage == NPages

NoInsn == [page |-> PlainPage, access |-> "none", operand |-> PlainPage]

\* The entry that translates an access to page p: the installed entry of a
\* hooked page, the identity entry of the plain page.
ViewFor(view, p) == IF p \in Pages THEN view[p] ELSE "orig"

CountExit(n) == IF n < MaxExits THEN n + 1 ELSE n

\* Every page of Pages carries a hook; install_hook leaves the read/write
\* entry installed.
InitFetch ==
    /\ i_pc = "idle"
    /\ i_insn = NoInsn
    /\ i_view = [p \in Pages |-> "rw"]
    /\ i_exits = 0
    /\ i_retired = 0

fetchRest ==
    <<lifeVars, exitVars, eptVars, regVars, stateVars, msrVars, ctorVars, lookupVars,
      watchVars, clientVars, seqVars>>

\* RIP reaches an instruction on the hooked page p whose operand, if it has
\* one, lies on page operand.
InsnBegin(p, access, operand) ==
    /\ i_pc \in {"idle", "retired"}
    /\ i_retired < MaxInsns
    /\ access = "none" => operand = PlainPage
    /\ i_insn' = [page |-> p, access |-> access, operand |-> operand]
    /\ i_pc' = "fetch"
    /\ i_exits' = 0
    /\ UNCHANGED <<i_view, i_retired, fetchRest>>

\* The fetch is granted by the installed entry.
InsnFetch ==
    /\ i_pc = "fetch"
    /\ Permits(ViewFor(i_view, i_insn.page), "fetch")
    /\ i_pc' = "data"
    /\ UNCHANGED <<i_insn, i_view, i_exits, i_retired, fetchRest>>

\* The fetch is not granted: EPT violation, handle_violation installs the
\* execute entry and the guest is resumed at the same RIP.
InsnFetchViolation ==
    /\ i_pc = "fetch"
    /\ ~Permits(ViewFor(i_view, i_insn.page), "fetch")
    /\ ~handle_violation("hook").increment_rip /\ ~handle_violation("hook").exit_vm
    /\ i_view' = [i_view EXCEPT ![i_insn.page] = ViewAfterViolation("hook", "fetch", @)]
    /\ i_exits' = CountExit(i_exits)
    /\ UNCHANGED <<i_pc, i_insn, i_retired, fetchRest>>

\* The data access is granted (or the instruction has none): the
\* instruction retires.
InsnData ==
    /\ i_pc = "data"
    /\ i_insn.access # "none" => Permits(ViewFor(i_view, i_insn.operand), i_insn.access)
    /\ i_pc' = "retired"
    /\ i_retired' = i_retired + 1
    /\ UNCHANGED <<i_insn, i_view, i_exits, fetchRest>>

\* The data access is not granted: EPT violation, handle_violation installs
\* the read/write entry and the guest is resumed at the same RIP, that is
\* with the fetch of the same instruction.
InsnDataViolation ==
    /\ i_pc = "data"
    /\ i_insn.access # "none"
    /\ ~Permits(ViewFor(i_view, i_insn.operand), i_insn.access)
    /\ ~handle_violation("hook").increment_rip /\ ~handle_violation("hook").exit_vm
    /\ i_view' = [i_view EXCEPT ![i_insn.operand] =
                      ViewAfterViolation("hook", i_insn.access, @)]
    /\ i_pc' = "fetch"
    /\ i_exits' = CountExit(i_exits)
    /\ UNCHANGED <<i_insn, i_retired, fetchRest>>

InsnStep == InsnFetch \/ InsnFetchViolation \/ InsnData \/ InsnDataViolation

NextFetch ==
    \/ \E p \in Pages, access \in DataAccesses, operand \in Pages \cup {PlainPage} :
          InsnBegin(p, access, operand)
    \/ InsnFetch
    \/ InsnFetchViolation
    \/ InsnData
    \/ InsnDataViolation

InitEpt ==
    InitEnabled /\ InitEptState /\ InitExit /\ InitReg /\ InitState /\ InitMsr /\ InitCtor
    /\ InitLookup /\ InitWatch /\ InitClient /\ InitSeq /\ InitFetch

NextEpt ==
    \/ \E c \in CPUs, p \in Pages, a \in Accesses : GuestAccess(c, p, a)
    \/ \E p \in Pages, o \in InstallOutcomes : install_ept_hook(p, OwnerOf(p), o)
    \/ \E p \in Pages, i \in BOOLEAN, o \in WatchOutcomes :
           install_ept_code_watch_point(p, OwnerOf(p), i, o)
    \/ \E l \in PageLists, outs \in [Pages -> WatchOutcomes] :
           install_ept_code_watch_points(l, outs)
    \/ disable_all_ept_hooks
    \/ \E pid \in Pids : cleanup_process(pid)
    \/ SleepCompletes
    \/ \E outs \in [CPUs -> WakeOutcomes] : WakeupCompletes(outs)

SpecEpt == InitEpt /\ [][NextEpt]_vars

Init ==
    InitLife /\ InitExit /\ InitEptState /\ InitReg /\ InitState /\ InitMsr /\ InitCtor
    /\ InitLookup /\ InitWatch /\ InitClient /\ InitSeq /\ InitFetch

Next ==
    \/ Construct
    \/ ConstructSecond
    \/ Destroy
    \/ SleepNotification
    \/ WakeupNotification
    \/ InsertQueueDpc
    \/ \E c \in CPUs : RetireDpc(c)
    \/ \E c \in CPUs : EnableCallback(c)
    \/ \E c \in CPUs : DisableCallback(c)
    \/ \E c \in CPUs : UseAfterRelease(c)
    \/ NextCpu
    \/ EnableRollsBack
    \/ ReturnNormally
    \/ ThrowAfterRollback

Spec == Init /\ [][Next]_vars

(***************************************************************************)
(* SpecExit: one processor taking VM exits.                                *)
(***************************************************************************)
NextExit ==
    \/ ExitCpuid
    \/ ExitInvd
    \/ ExitXsetbv
    \/ ExitVmxInstruction
    \/ ExitEptViolation
    \/ ExitEptMisconfiguration
    \/ ExitException
    \/ ExitUnhandled
    \/ Launch

SpecExit == Init /\ [][NextExit]_vars

SpecReg == Init /\ [][NextReg]_vars

SpecState == Init /\ [][NextState]_vars

SpecMsr == Init /\ [][NextMsr]_vars

SpecCtor == Init /\ [][NextCtor]_vars

SpecLookup == Init /\ [][NextLookup]_vars

SpecWatch == Init /\ [][NextWatch]_vars

SpecClient == Init /\ [][NextClient]_vars

SpecSeq == Init /\ [][NextSeq]_vars

\* The processor never stops: an instruction that can take its next step,
\* and a VM exit whose handler has returned, go on.
SpecFetch == Init /\ [][NextFetch]_vars /\ WF_vars(InsnStep)

(***************************************************************************)
(* Properties of the lifecycle.                                            *)
(***************************************************************************)
\* enable(), called directly or from the wakeup notification, returns with res.
EnableReturns(res) ==
    /\ op \in {"ctor", "wakeup"} /\ pc = "wait"
    /\ op' = "idle" /\ lastRet'.res = res

\* Claim C1: enable() is all-or-nothing.  When it returns normally,
\* is_enabled() is true on every processor; when it throws (try_enable_core
\* failed somewhere and disable() was run), no processor is left virtualised.
C1_EnableAllOrNothing ==
    [][/\ EnableReturns("ok") => \A c \in CPUs : is_hypervisor_present(virt'[c])
       /\ EnableReturns("throw") => \A c \in CPUs : ~virt'[c]]_vars

\* disable_core has just completed on processor c.
DisableCoreRan(c) == running[c] = "disable" /\ running'[c] = "none"

\* Claim C2: once disable_core has run on a processor, that processor is no
\* longer virtualised; a processor that still reports the hypervisor as
\* present has halted the system with KeBugCheckEx instead of continuing.
C2_DisableCoreLeavesVmx ==
    [][\A c \in CPUs :
         DisableCoreRan(c) =>
             /\ ~virt'[c] \/ halted' = "bugcheck"
             /\ is_hypervisor_present(virt'[c]) => halted' = "bugcheck"]_vars

\* C2's case: disable_core ran on a virtualised processor, which has left VMX
\* operation, and the system goes on.
C2_Witness ==
    /\ lastCore.kind = "disable" /\ lastCore.wasVirt
    /\ ~virt[lastCore.cpu]
    /\ halted = "no"

\* Claim C4: dispatch_on_all_cores runs the callback exactly once on every
\* processor, and dispatch_on_specific_cpu does not return while the callback
\* is still queued or still running on its target: a callback is queued or
\* running on c only while the caller sits in the wait loop for c.
C4_DispatchBarrier ==
    \A c \in CPUs :
        /\ ran[c] <= 1
        /\ (round # "none" /\ cur > c) => ran[c] = 1
        /\ (dpcq[c] # "none" \/ running[c] # "none") => (pc = "wait" /\ cur = c)

\* Claim C34: dispatch_on_all_cores runs the callback on one processor at a
\* time in index order: whenever the callback starts on a processor, every
\* processor before it in the order has had its callback, and no callback is
\* still running on any other processor.
C34_OneProcessorAtATime ==
    [][\A c \in CPUs :
          (running[c] = "none" /\ running'[c] # "none") =>
              /\ \A d \in CPUs : d < c => ran[d] >= 1
              /\ \A d \in CPUs \ {c} : running[d] = "none"]_vars

\* Claim C8: for every sequence of sleep and wakeup notifications, once a
\* sleep notification has been processed every processor is un-virtualised,
\* and once a wakeup notification has been processed every processor is
\* virtualised if and only if every processor was virtualised immediately
\* before the most recent sleep notification.
C8_SleepWakeRestores ==
    /\ (op = "idle" /\ lastRet.op = "sleep") => NoneVirt
    /\ (op = "idle" /\ lastRet.op = "wakeup" /\ sleepSeen)
           => (AllVirt <=> enabledBeforeSleep)

\* Claim C10: enable() followed by disable() is a round trip on every
\* processor: when disable_core completes on a processor that enable_core had
\* virtualised, CPUID.1:ECX[31] is clear and CR4 and RFLAGS.AC are what they
\* were before enable() (VMXE clear, AC clear).
C10_EnableDisableRoundTrip ==
    [][\A c \in CPUs :
         (DisableCoreRan(c) /\ virt[c]) =>
             /\ ~HasBit31(CpuidSeen(virt'[c], Word(CPUID_VERSION_INFORMATION), Zero32,
                                    KernelCs).ecx)
             /\ ~cr4_vmxe'[c]
             /\ ~rflags_ac'[c]]_vars

(***************************************************************************)
(* Properties of the VM-exit path (SpecExit).                              *)
(***************************************************************************)
\* C3: every VM exit, whatever its reason, ends either in VMRESUME with
\* exit_vm false or in VMXOFF with exit_vm true; nothing else leaves the
\* exit path.
C3_ExitResumesOrLeaves ==
    x_last.reason # "none" =>
        /\ x_out.outcome \in {"vmresume", "vmxoff"}
        /\ (x_out.outcome = "vmxoff") = x_out.exit_vm

\* The exit taken in this step is a CPUID exit with a cookie in EAX/ECX that
\* the guest executed outside ring 0.
CookieExitOutsideRing0 ==
    /\ GuestRuns
    /\ x_last'.reason = "CPUID"
    /\ x_last'.rax.lo = Word(CookieEax)
    /\ x_last'.rcx.lo \in {Word(CookieExitEcx), Word(CookieHookEcx)}
    /\ ~is_system(x_last'.cs)

\* C6: a cookie CPUID executed at a guest CPL other than 0 has no control
\* effect: exit_vm stays false, the guest is resumed, the syscall-hook state
\* is unchanged, and the registers receive what the pass-through path stores
\* for an ordinary leaf.
C6_CookieOutsideRing0IsOrdinary ==
    [][CookieExitOutsideRing0 =>
          /\ ~x_out'.exit_vm /\ ~x_out'.hooks
          /\ x_out'.outcome = "vmresume" /\ x_virt'
          /\ x_hooks' = x_hooks
          /\ x_out'.written
          /\ LET n == NativeCpuid(x_last'.rax.lo, x_last'.rcx.lo)
             IN  /\ x_out'.rax = SignExtend(n.eax) /\ x_out'.rbx = SignExtend(n.ebx)
                 /\ x_out'.rcx = SignExtend(n.ecx) /\ x_out'.rdx = SignExtend(n.edx)]_vars

C6_Witness ==
    /\ x_last.reason = "CPUID" /\ x_last.rax = Reg(CookieEax)
    /\ x_last.rcx = Reg(CookieExitEcx) /\ ~is_system(x_last.cs)
    /\ x_out.outcome = "vmresume" /\ x_out.written /\ x_virt

(***************************************************************************)
(* Properties of the EPT hooks (SpecEpt).                                  *)
(***************************************************************************)
\* C5: when a hook operation has returned, no virtualised processor still
\* holds a translation cached before the operation changed the page-table
\* entry: the operation was followed by an INVEPT there, whatever its outcome
\* and whatever the invalidate argument.
C5_MutationsAreInvalidated ==
    \A c \in CPUs : virt[c] => ~(tlb[c].view # "none" /\ tlb[c].stale)

\* The step is a call that dispatches ept::invalidate to the processors:
\* disable_all_ept_hooks, cleanup_process through invalidate_cores when it
\* removed something, or a watch-point installation that invalidates.
InveptDispatched ==
    \/ disable_all_ept_hooks
    \/ \E process \in Pids :
          /\ cleanup_process(process)
          /\ ept_cleanup_process(pt, ept_hooks, ept_code_watch_points, process).removed
    \/ \E l \in PageLists, outs \in [Pages -> WatchOutcomes] :
          install_ept_code_watch_points(l, outs)
    \/ \E p \in Pages, o \in WatchOutcomes :
          /\ install_ept_code_watch_point(p, OwnerOf(p), TRUE, o)
          /\ ept_install_code_watch_point(pd_split, pt, ept_code_watch_points, p,
                                          OwnerOf(p), o).ok

\* C27: every INVEPT that invalidate_cores, disable_all_ept_hooks or the
\* watch-point installation issues on a virtualised processor is executed in
\* VMX root operation and has emptied what that processor had cached when
\* the call returns.
C27_InveptRunsInRootMode ==
    [][InveptDispatched =>
          \A c \in CPUs :
             virt[c] => (callback_mode(virt[c]) = "vmx_root" /\ tlb'[c] = EmptyTlb)]_vars

\* C7: every completed guest read of a hooked page returns the byte of the
\* original page and every completed fetch at the patched offset returns
\* the patch byte, whichever processor issued it.
C7_SplitViewBytes ==
    /\ obs.access = "read" => obs.value = "original"
    /\ obs.access = "fetch" => obs.value = "patch"

\* C9: after a sleep and a wakeup that enabled the hypervisor again, every
\* hook registered before is still in effect: its page is split and its
\* page-table entry is one of the two hook views.
C9_HookSurvivesSleepWake ==
    (sleepSeen /\ AllVirt) =>
        \A p \in Pages : ept_hooks[p] # 0 => (pd_split /\ pt[p] \in {"rw", "exec"})

\* C16: at most one hypervisor object is registered.  A constructor that runs
\* while an object is registered throws and leaves the registered instance as
\* it was, and once construction has failed or the registered object has been
\* destroyed, get_instance() returns null.
get_instance == instance

C16_SingleInstance ==
    /\ [][ConstructSecond => (instance' = instance /\ lastRet'.res = "throw")]_vars
    /\ [](instance \in {"null", "first"})
    /\ []((op = "idle" /\ constructed \in {"failed", "destroyed"}) => get_instance = "null")

C16_Witness ==
    /\ lastRet = [op |-> "ctor2", res |-> "throw"]
    /\ get_instance = "first"
    /\ constructed = "yes"

\* C15: when cleanup_process has removed a hook or a watch point of the
\* process, INVEPT has been executed on every virtualised processor before
\* hypervisor::cleanup_process returns, so none of them keeps a cached
\* translation; when nothing was removed the call changes nothing.
C15_CleanupInvalidates ==
    [][\A process \in Pids :
          cleanup_process(process) =>
             IF ept_cleanup_process(pt, ept_hooks, ept_code_watch_points, process).removed
             THEN \A c \in CPUs :
                     virt[c] => (ept_invalidate(virt[c]) = "flushed" /\ tlb'[c] = EmptyTlb)
             ELSE tlb' = tlb /\ pt' = pt]_vars

\* C13: a CPUID exit that is not an honoured cookie gives the guest the
\* native result of the leaf and sub-leaf in EAX, EBX, ECX and EDX, except
\* that leaf 1 has ECX bit 31 set and leaf 0x40000001 has EAX replaced by
\* the vendor signature.  The leaf is what CPUID takes from EAX.
C13_CpuidPassThrough ==
    (x_last.reason = "CPUID" /\ x_out.written) =>
        /\ x_out.rax.lo = IF x_last.rax.lo = Word(HYPERV_CPUID_INTERFACE)
                          THEN Word(VendorSignature)
                          ELSE NativeCpuid(x_last.rax.lo, x_last.rcx.lo).eax
        /\ x_out.rbx.lo = NativeCpuid(x_last.rax.lo, x_last.rcx.lo).ebx
        /\ x_out.rcx.lo = IF x_last.rax.lo = Word(CPUID_VERSION_INFORMATION)
                          THEN OrBit31(NativeCpuid(x_last.rax.lo, x_last.rcx.lo).ecx)
                          ELSE NativeCpuid(x_last.rax.lo, x_last.rcx.lo).ecx
        /\ x_out.rdx.lo = NativeCpuid(x_last.rax.lo, x_last.rcx.lo).edx

\* C36: after an emulated CPUID the guest's RAX, RBX, RCX and RDX hold the
\* 32-bit results zero-extended to 64 bits: the upper 32 bits of each are
\* zero, also when bit 31 of the result is set.
C36_CpuidZeroExtended ==
    (x_last.reason = "CPUID" /\ x_out.written) =>
        /\ x_out.rax = ZeroExtend(x_out.rax.lo)
        /\ x_out.rbx = ZeroExtend(x_out.rbx.lo)
        /\ x_out.rcx = ZeroExtend(x_out.rcx.lo)
        /\ x_out.rdx = ZeroExtend(x_out.rdx.lo)

\* C18: after a VM exit caused by a VMX instruction of the guest (the ten
\* the dispatcher names, and INVEPT and INVVPID, which exit as well), CF is
\* set in the guest RFLAGS, the guest RIP is past the instruction, the
\* instruction was not executed for the guest, no register and no other
\* guest state was changed, and the guest is resumed.
C18_VmxInstructionFails ==
    x_last.reason \in (VmxInstructionReasons \cup {"INVEPT", "INVVPID"}) =>
        /\ x_out.cf
        /\ x_out.rip_add = x_last.len
        /\ x_out.emulated = "none"
        /\ x_out.outcome = "vmresume"
        /\ ~x_out.written /\ ~x_out.hooks /\ x_out.event = NoEvent
        /\ x_out.rax = x_last.rax /\ x_out.rcx = x_last.rcx /\ x_out.rdx = x_last.rdx

\* C19: when the bytes at the guest's RIP cannot be read while an invalid
\* opcode exit is handled (no physical mapping, or the physical read fails),
\* a page fault is pending for the guest when it is resumed, so
\* get_syscall_state reports page_fault only with that event pending, and
\* the handler does not fault in VMX root operation.
InvalidOpcodeExit ==
    x_last.reason = "EXCEPTION_OR_NMI" /\ x_last.kind = "invalid_opcode"

C19_ReadFailureInjectsPageFault ==
    /\ (InvalidOpcodeExit /\ x_last.sys \in {"unmapped", "read_failed"}) =>
          /\ x_out.sys_state = "page_fault"
          /\ x_out.outcome = "vmresume" /\ ~x_out.fault
    /\ x_out.sys_state = "page_fault" =>
          (x_out.event.valid /\ x_out.event.vector = page_fault)

\* C20: after inject_page_fault the VM-entry interruption-information field
\* holds a valid hardware exception with vector #PF and deliver-error-code
\* set, and the exception error-code field holds the error code.
C20_PageFaultEventIsValid ==
    (InvalidOpcodeExit /\ x_last.sys = "unmapped") =>
        x_out.event = [valid |-> TRUE, vector |-> page_fault, type |-> hardware_exception,
                       deliver |-> TRUE, error_code |-> 0]

\* C21: the guest RIP is advanced by the VM-exit instruction length exactly
\* when increment_rip is still set after the dispatch: after a CPUID, INVD,
\* XSETBV or VMX-instruction exit it is the RIP of the exit plus that length,
\* and after an EPT-violation or invalid-opcode exit the step that follows
\* the dispatch has added nothing.
C21_RipAdvancedOncePerExit ==
    x_last.reason # "none" =>
        /\ x_out.rip_add = IF x_out.increment_rip THEN x_last.len ELSE 0
        /\ x_last.reason \in ({"CPUID", "INVD", "XSETBV"} \cup VmxInstructionReasons) =>
              /\ x_out.rip_add = x_last.len
              /\ x_out.guest_rip = AddSmall(x_last.rip, x_last.len)
        /\ x_last.reason = "EPT_VIOLATION" =>
              (x_out.rip_add = 0 /\ x_out.guest_rip = x_last.rip)
        /\ InvalidOpcodeExit => x_out.rip_add = 0

\* C22: after an Exception/NMI exit that is an NMI, or an exception other
\* than invalid-opcode that is re-injected, the guest RIP is the RIP at which
\* the exit occurred.
C22_ReinjectedExceptionKeepsRip ==
    (x_last.reason = "EXCEPTION_OR_NMI" /\ x_last.kind \in {"nmi", "other"}) =>
        (x_out.rip_add = 0 /\ x_out.guest_rip = x_last.rip)

\* C23: after an invalid-opcode exit at a RIP whose bytes were read and are
\* neither SYSCALL nor SYSRET, #UD is pending for the guest as a valid
\* hardware exception without error code, and the guest RIP, RFLAGS, CS/SS
\* selectors and general registers are those of the exit.
C23_OtherInvalidOpcodeReinjected ==
    (InvalidOpcodeExit /\ x_last.sys = "other_bytes") =>
        /\ x_out.event = [valid |-> TRUE, vector |-> invalid_opcode,
                          type |-> hardware_exception, deliver |-> FALSE,
                          error_code |-> ErrorCodeUnwritten]
        /\ x_out.outcome = "vmresume"
        /\ x_out.guest_rip = x_last.rip /\ x_out.guest_rsp = x_last.rsp
        /\ x_out.guest_e_flags = x_last.rflags
        /\ x_out.cs_sel = x_last.cs /\ x_out.ss_sel = x_last.ss
        /\ x_out.rax = x_last.rax /\ x_out.rcx = x_last.rcx /\ x_out.rdx = x_last.rdx
        /\ x_out.r11 = x_last.r11

C23_Witness ==
    /\ InvalidOpcodeExit /\ x_last.sys = "other_bytes" /\ x_last.len = 3
    /\ x_last.rflags = BitsOf(66374)
    /\ x_out.event.valid /\ x_out.event.vector = invalid_opcode

\* SYSCALL is the two bytes 0F 05.
SyscallLength == 2

\* The exit taken is an invalid-opcode exit on a SYSCALL, on a SYSRET.
SyscallExit == InvalidOpcodeExit /\ x_last.sys = "syscall_bytes"

SysretExit == InvalidOpcodeExit /\ x_last.sys = "sysret_bytes"

\* C24: an emulated SYSCALL leaves RCX = address of the next instruction,
\* R11 = old RFLAGS, RIP = LSTAR, RFLAGS without the FMASK bits and RF, and
\* CS/SS from STAR[47:32]; an emulated SYSRET leaves RIP = RCX, RFLAGS =
\* (R11 & 0x3C7FD7) | 2 and CS/SS from STAR[63:48] with RPL 3; a SYSRET that
\* follows a SYSCALL with RCX and R11 as the SYSCALL left them returns to
\* the instruction after the SYSCALL with the RFLAGS of the SYSCALL
\* restricted to 0x3C7FD7.
C24_SyscallSysretRoundTrip ==
    /\ [](SyscallExit =>
             /\ x_out.rcx = AddSmall(x_last.rip, SyscallLength)
             /\ x_out.r11 = x_last.rflags
             /\ x_out.guest_rip = x_last.msr.lstar
             /\ x_out.guest_e_flags =
                    x_last.rflags \ (x_last.msr.fmask \cup BitsOf(RFLAGS_RESUME_FLAG_FLAG))
             /\ x_out.cs_sel = ClearRpl(x_last.msr.star_syscall)
             /\ x_out.ss_sel = (ClearRpl(x_last.msr.star_syscall) + 8) % 65536)
    /\ [](SysretExit =>
             /\ x_out.guest_rip = x_last.rcx
             /\ x_out.guest_e_flags = (x_last.r11 \cap BitsOf(SysretRflagsMask)) \cup BitsOf(2)
             /\ x_out.cs_sel = SetRpl3((x_last.msr.star_sysret + 16) % 65536)
             /\ x_out.ss_sel = SetRpl3((x_last.msr.star_sysret + 8) % 65536))
    /\ [][(/\ SyscallExit
           /\ x_last'.reason = "EXCEPTION_OR_NMI" /\ x_last'.kind = "invalid_opcode"
           /\ x_last'.sys = "sysret_bytes"
           /\ x_last'.rcx = x_out.rcx /\ x_last'.r11 = x_out.r11) =>
              /\ x_out'.guest_rip = AddSmall(x_last.rip, SyscallLength)
              /\ x_out'.guest_e_flags =
                     (x_last.rflags \cap BitsOf(SysretRflagsMask)) \cup BitsOf(2)]_vars

\* The position of the first step of the exit path that executes name, 0 when
\* there is none.
StepIndex(name) ==
    IF \E i \in DOMAIN x_out.steps : x_out.steps[i].op = name
    THEN CHOOSE i \in DOMAIN x_out.steps :
            /\ x_out.steps[i].op = name
            /\ \A j \in DOMAIN x_out.steps : x_out.steps[j].op = name => i <= j
    ELSE 0

\* C25: when exit_vm is set, GDTR and IDTR are loaded from the launch
\* context and CR3 from the guest CR3 before VMXOFF, the host continues only
\* after VMXOFF, at the guest RIP (after a CPUID exit: past the CPUID), with
\* the guest RSP and RFLAGS and with RCX = 0x43434343.
C25_LeaveRestoresBeforeVmxoff ==
    (x_last.reason # "none" /\ x_out.exit_vm) =>
        /\ StepIndex("lgdt") > 0 /\ StepIndex("lidt") > 0 /\ StepIndex("writecr3") > 0
        /\ x_out.steps[StepIndex("lgdt")].with = launch_context.gdtr
        /\ x_out.steps[StepIndex("lidt")].with = launch_context.idtr
        /\ x_out.steps[StepIndex("writecr3")].with = x_last.cr3
        /\ StepIndex("lgdt") < StepIndex("vmxoff")
        /\ StepIndex("lidt") < StepIndex("vmxoff")
        /\ StepIndex("writecr3") < StepIndex("vmxoff")
        /\ StepIndex("vmxoff") < StepIndex("restore_context")
        /\ x_out.steps[StepIndex("restore_context")].with = "guest_rip"
        /\ x_out.context.Rip = x_out.guest_rip
        /\ x_last.reason = "CPUID" => x_out.context.Rip = AddSmall(x_last.rip, x_last.len)
        /\ x_out.context.Rsp = x_last.rsp
        /\ x_out.context.EFlags = x_last.rflags
        /\ x_out.context.Rcx = Reg(1128481603)
        /\ x_out.rcx = Reg(1128481603)

C25_Witness ==
    /\ x_last.reason = "CPUID" /\ x_out.exit_vm /\ x_out.outcome = "vmxoff"
    /\ x_last.rip = Q64(W32(TRUE, 2147481600), W32(TRUE, 2147483646))
    /\ x_out.context.Rip = Q64(W32(TRUE, 2147481601), Word(0))
    /\ x_last.rflags = BitsOf(66374)
    /\ Len(x_out.steps) = 5

\* Claim C33: an exit caused by a guest RDMSR or WRMSR is given to
\* handle_msr_access, which emulates the access, and the guest is resumed
\* past the instruction.
C33_MsrExitIsEmulated ==
    x_last.reason \in {"RDMSR", "WRMSR"} =>
        /\ x_out.emulated = "msr_access"
        /\ x_out.increment_rip /\ x_out.rip_add = x_last.len
        /\ x_out.outcome = "vmresume"

(***************************************************************************)
(* Properties of the hook lookup table (SpecReg).                          *)
(***************************************************************************)
\* C11: a find_hook that runs without the lock while a hook is added or
\* removed returns the hook of the page if that hook stayed registered for
\* the whole lookup, and returns nothing but a hook that was registered for
\* the page looked up.
C11_LockFreeLookup ==
    f_pc = "done" =>
        /\ f_stable # {} => f_res \in f_stable
        /\ f_res # 0 => f_res \in f_ever

C17_OwnState ==
    \A c \in CPUs :
        /\ s_cur[c] \in {0, vm_states_(c)}
        /\ s_resolved[c] \in {0, vm_states_(c)}
        /\ s_pc[c] \in {"guest", "host"} => s_resolved[c] = s_cur[c]
        /\ s_vmcs[c] \in {0, vm_states_(c) + OffsetVmcs}
        /\ s_writes[c] \subseteq {c}

C17_Witness ==
    \A c \in CPUs :
        /\ s_pc[c] = "host"
        /\ s_resolved[c] = vm_states_(c)
        /\ s_writes[c] = {c}

\* The entries of a sequence of VMX instructions that are an execution of
\* VMXON, successful or not: one per run of launch_hypervisor that got as
\* far as enter_root_mode_on_cpu's VMXON.
VmxonAttempts(steps) == {k \in DOMAIN steps : steps[k] \in {"vmxon", "vmxon_failed"}}

VmLaunched(steps) == \E k \in DOMAIN steps : steps[k] = "vmlaunch"

\* C35: within one enable_core call launch_hypervisor is executed at most
\* once: after a successful VMLAUNCH the processor goes on behind
\* capture_cpu_context with launched set in its own launch context, executes
\* no second VMXON, and enable_core ends without an exception.
C35_LaunchAtMostOnce ==
    \A c \in CPUs :
        /\ Cardinality(VmxonAttempts(s_steps[c])) <= 1
        /\ VmLaunched(s_steps[c]) =>
              /\ s_launched[StateOf(s_cur[c])]
              /\ s_ret[c] = "true" /\ s_error[c] = NoError

C35_Witness ==
    \A c \in CPUs :
        /\ s_pc[c] = "guest"
        /\ VmLaunched(s_steps[c])
        /\ s_launched[c]
        /\ s_ret[c] = "true"

\* C14: when try_enable_core has returned false on a processor that had
\* executed VMXON successfully, VMXOFF was the last VMX instruction the
\* processor executed and it is out of VMX operation; after a failed
\* VMLAUNCH the VM-instruction error was read before that VMXOFF and is the
\* code of the reported error.
Executed(c, step) == \E i \in DOMAIN s_steps[c] : s_steps[c][i] = step

C14_FailureLeavesVmxOperation ==
    \A c \in CPUs :
        (s_ret[c] = "false" /\ Executed(c, "vmxon")) =>
            /\ s_steps[c][Len(s_steps[c])] = "vmxoff"
            /\ s_pc[c] = "off" /\ s_vmcs[c] = 0
            /\ s_error[c] # NoError
            /\ Executed(c, "vmlaunch_failed") =>
                  /\ \E i, j \in DOMAIN s_steps[c] :
                        /\ i < j
                        /\ s_steps[c][i] = "vmread_error"
                        /\ s_steps[c][j] = "vmxoff"
                  /\ s_error[c].code = s_vm_error[c]

C14_Witness ==
    \E c \in CPUs :
        /\ s_ret[c] = "false"
        /\ s_steps[c] = <<"vmxon", "vmclear", "vmptrld", "vmlaunch_failed", "vmread_error",
                          "vmxoff">>
        /\ s_error[c] = [what |-> "Failed to launch vmx", code |-> 7]

(***************************************************************************)
(* Properties of the control adjustment (SpecMsr).                         *)
(***************************************************************************)
\* The capability MSR read: allowed0 and allowed1.
allowed0 == LowPart(a_control)

allowed1 == HighPart(a_control)

DtorFreesMemory == op = "dtor" /\ ReturnNormally

\* Claim C29: the destructor disables virtualisation on every processor
\* before it frees the VM states and the EPT: at the moment free_vm_states()
\* runs, no processor is virtualised and no disable_core is still under way.
C29_NothingFreedWhileVirtualised ==
    [][DtorFreesMemory =>
          \A c \in CPUs : ~virt[c] /\ running[c] = "none" /\ dpcq[c] = "none"]_vars

(***************************************************************************)
(* Properties of construction and destruction (SpecCtor).                  *)
(***************************************************************************)
\* The constructor is past instance = this.
CtorRegistered ==
    h_pc \in {"supported", "available", "ept", "array", "state", "enable", "rollback"}

\* The registered constructor ends without an object.
CtorFails == CtorRegistered /\ h_pc' = "idle"

\* Claim C28: when construction fails at any step after the instance was
\* registered, every VM state and the EPT object allocated so far have been
\* freed exactly once (and nothing that was not allocated), the pointers of
\* the object are cleared, instance is null again and the caller gets the
\* exception.
C28_FailedConstructionCleansUp ==
    [][CtorFails =>
          /\ \A o \in Objects : h_allocs'[o] <= 1 /\ h_frees'[o] = h_allocs'[o]
          /\ ~h_ept' /\ ~h_array'
          /\ h_instance' = "null"
          /\ h_ret'.op = "ctor" /\ h_ret'.res = "throw" /\ h_ret'.msg # "none"]_vars

\* The allocation of the second VM state failed: the first VM state, the
\* array and the ept object were freed once, instance is null.
C28_Witness ==
    /\ h_pc = "idle"
    /\ h_ret = [op |-> "ctor", res |-> "throw", msg |-> "Failed to allocate VM state entries"]
    /\ h_allocs[0] = 1 /\ h_frees[0] = 1
    /\ h_allocs[1] = 0 /\ h_frees[1] = 0
    /\ h_allocs[EptObject] = 1 /\ h_frees[EptObject] = 1
    /\ h_instance = "null"

(***************************************************************************)
(* Properties of the lookup table used by one caller (SpecLookup).         *)
(***************************************************************************)
\* A sequence without every occurrence of an entry.
Without(seq, entry) == SelectSeq(seq, LAMBDA x : x # entry)

\* The last call removed this entry from the table of this kind.
JustRemoved(kind, entry) ==
    l_last.op = "remove" /\ l_last.kind = kind /\ l_last.entry = entry /\ l_last.ok

\* Claim C30: remove_hook (remove_watchpoint) of an entry the table holds
\* returns true, takes out exactly that entry and keeps the others in their
\* order; removing the same entry once more returns false and changes
\* nothing; a find_hook (find_watchpoint) for the page of the removed entry
\* that follows the removal does not return it.
C30_RemoveOnceThenUnknown ==
    [][\A kind \in TableKinds :
          /\ \A entry \in Entries(kind) :
                TableRemove(kind, entry) =>
                   /\ Holds(kind, entry) =>
                         /\ l_last'.ok
                         /\ Live(TableOf(kind), CountOf(kind))' =
                               Without(Live(TableOf(kind), CountOf(kind)), entry)
                         /\ CountOf(kind)' = CountOf(kind) - 1
                   /\ JustRemoved(kind, entry) =>
                         /\ ~l_last'.ok
                         /\ TableOf(kind)' = TableOf(kind)
                         /\ CountOf(kind)' = CountOf(kind)
          /\ \A aligned \in Pages :
                (TableFind(kind, aligned) /\ l_last.op = "remove" /\ l_last.kind = kind
                   /\ l_last.ok /\ l_last.page = aligned) =>
                      l_last'.found # l_last.entry]_vars

\* The first of three hooks was removed: the other two are left, in order.
C30_Witness ==
    /\ JustRemoved("hook", 1)
    /\ l_hook_count = 2
    /\ l_hooks[0] = 2 /\ l_hooks[1] = 3 /\ l_hooks[2] = 0

\* The pointers in the slots below the count.
Held(kind) == {TableOf(kind)[i] : i \in 0..(CountOf(kind) - 1)}

\* The last call was an add to a table that was full.
RefusedAdd(kind) == l_last.op = "add" /\ l_last.kind = kind /\ ~l_last.ok

\* Claim C31: after any sequence of add, remove and clear calls each count
\* lies between 0 and the capacity of its table (MAX_HOOKS, MAX_WATCHPOINTS),
\* the slots below the count hold exactly the registered pointers, each once,
\* and every slot at or above the count is null; an add on a full table
\* returns false and leaves the table as it was.
C31_TableInvariant ==
    /\ [](\A kind \in TableKinds :
             /\ CountOf(kind) \in 0..Capacity(kind)
             /\ Held(kind) = l_registered[kind]
             /\ Cardinality(Held(kind)) = CountOf(kind)
             /\ 0 \notin Held(kind)
             /\ \A i \in DOMAIN TableOf(kind) : i >= CountOf(kind) => TableOf(kind)[i] = 0)
    /\ [][\A kind \in TableKinds :
             (l_last' # l_last /\ CountOf(kind) = Capacity(kind) /\ l_last'.op = "add"
                /\ l_last'.kind = kind)
             => /\ ~l_last'.ok
                /\ TableOf(kind)' = TableOf(kind)
                /\ CountOf(kind)' = CountOf(kind)]_vars

\* An add was refused by the full hook table, which holds three hooks.
C31_Witness ==
    /\ RefusedAdd("hook")
    /\ l_hook_count = MaxHooks
    /\ Held("hook") = l_registered["hook"]
    /\ l_watchpoint_count = 1

(***************************************************************************)
(* Properties of install_ept_code_watch_points (SpecWatch).                *)
(***************************************************************************)
\* The entries of the log of one kind, in order.
Logged(what) == SelectSeq(w_log, LAMBDA e : e.what = what)

C38_WriteReportsDriverResult ==
    u_last.fn = "write" =>
        /\ u_last.ret = 1 <=> (u_last.initialized /\ u_last.delivered /\ u_last.accepted)
        /\ u_last.ret = 1 => <<u_last.pid, u_last.address>> \in u_patched

(***************************************************************************)
(* Properties of the sequential DPC dispatcher (SpecSeq).                  *)
(***************************************************************************)
\* C39: with sequential_callback_dispatcher running on all processors at
\* once, the callback is started once per processor in ascending index
\* order, never runs on two processors at the same time and starts on a
\* processor only when it has ended on all processors before it, and no
\* processor signals completion before the callback has ended on every
\* processor.
C39_SequentialDispatch ==
    /\ \A k \in DOMAIN q_order : q_order[k] = k - 1
    /\ Cardinality({c \in CPUs : q_pc[c] = "callback"}) <= 1
    /\ \A c \in CPUs :
          q_pc[c] = "callback" => \A d \in CPUs : d < c => q_ended[d] # "none"
    /\ \A c \in CPUs :
          q_pc[c] \in {"signal", "done"} =>
              /\ Len(q_order) = NCpu
              /\ \A d \in CPUs : q_ended[d] # "none"

C39_Witness ==
    /\ \A c \in CPUs : q_pc[c] = "done"
    /\ q_order = [k \in 1..NCpu |-> k - 1]
    /\ \E c \in CPUs : q_ended[c] = "caught"

(***************************************************************************)
(* Properties of instructions on a hooked page (SpecFetch).                *)
(***************************************************************************)
\* C37: a guest instruction that is fetched from a hooked page eventually
\* retires, also when it reads or writes data on that same page: the
\* switching between the execute entry and the read/write entry on EPT
\* violations does not go on forever for one instruction.
C37_InstructionRetires == (i_pc = "fetch") ~> (i_pc = "retired")

====
